---- MODULE Spec2Model ----
(***************************************************************************)
(* pc_inventory-app: the Item Store (sql.js table "items" behind the       *)
(* /api/items routes), the Normalizer (normalizeItem) and the Aggregator   *)
(* (profit, summary, cashflow buckets, category breakdown), the CSV export *)
(* and import of the inventory page, the date range of the cashflow page,  *)
(* and the handlers of the inventory page that send requests to the store. *)
(*                                                                         *)
(* Strings of the source that are not ASCII are written in romaji:         *)
(*   "zaiko" = in-stock status, "hanbaizumi" = sold status,                *)
(*   "PC-hontai", "parts", "shuhenkiki", "sonota" = the four categories    *)
(*   ("sonota" is the catch-all).                                          *)
(***************************************************************************)
EXTENDS Integers, Sequences, FiniteSets, TLC

VARIABLES
    db,        \* rows of table items in the in-memory sql.js database
    file,      \* rows of the database image last written to inventory.db
    inflight,  \* per request slot: the handler's position and its locals
    value,     \* Normalizer run: the untyped input
    result,    \* Normalizer run: what normalizeItem returned
    records,   \* a page's `items` state: the record list it aggregates
    zone,      \* the machine's local time zone: minutes ahead of UTC
    shown,     \* what the page's aggregation computed from records
    home,      \* the inventory page's other state: isSaving, isModalOpen, ...
    calls,     \* the inventory page's handlers that await a fetch
    storage,   \* the browser's localStorage entry "inventory-items-v1"
    range,     \* the cashflow page's preset, startDate and endDate
    now,       \* the machine's clock: the local year and month
    text,      \* the content of an exported CSV file
    sent       \* the number of requests the inventory page has started

pageVars == <<home, calls, storage, range, now, text, sent>>
viewVars == <<records, zone, shown, pageVars>>
vars == <<db, file, inflight, value, result, records, zone, shown, home, calls,
          storage, range, now, text, sent>>

(***************************************************************************)
(* Bounds of the model.                                                    *)
(***************************************************************************)
MaxInflight == 2     \* requests the server handles at the same time
MaxBatch == 2        \* rows of one import payload
MaxDeviations == 2   \* fields of a well-formed input replaced by other values
MaxRecords == 3      \* records of a list given to the Aggregator
MaxCalls == 2        \* handlers of the inventory page awaiting a fetch
MaxRequests == 2     \* requests the inventory page starts in a run

(***************************************************************************)
(* Untyped (JSON / JavaScript) values. k is the kind, s the payload of a   *)
(* string, n the payload of a number or boolean, f the own properties of   *)
(* an object. A property that is absent reads as undefined.                *)
(***************************************************************************)
Undef == [k |-> "undefined", s |-> "", n |-> 0]
Null == [k |-> "null", s |-> "", n |-> 0]
Num(x) == [k |-> "number", s |-> "", n |-> x]
Str(x) == [k |-> "string", s |-> x, n |-> 0]
Bool(b) == [k |-> "boolean", s |-> "", n |-> IF b THEN 1 ELSE 0]
Arr == [k |-> "array", s |-> "", n |-> 0]
Nested == [k |-> "object", s |-> "", n |-> 0]

ItemFields ==
    {"id", "recordType", "name", "category", "purchasePrice", "purchaseDate",
     "miscExpense", "consumableExpense", "sellingPrice", "soldDate", "status",
     "memo", "createdAt"}

NoProps == [p \in {} |-> Undef]
Prim(p) == [k |-> p.k, s |-> p.s, n |-> p.n, f |-> NoProps]
Object(props) == [k |-> "object", s |-> "", n |-> 0, f |-> props]

\* typeof v
TypeOf(v) == IF v.k \in {"null", "array"} THEN "object" ELSE v.k

\* !v is false
Truthy(v) ==
    CASE v.k \in {"undefined", "null"} -> FALSE
      [] v.k = "boolean" -> v.n = 1
      [] v.k = "number" -> v.n # 0
      [] v.k = "string" -> v.s # ""
      [] OTHER -> TRUE

\* v.name for an object or array v
Prop(v, name) == IF name \in DOMAIN v.f THEN v.f[name] ELSE Undef

(***************************************************************************)
(* sample-data.ts, inventory-storage.ts: the known values.                 *)
(***************************************************************************)
categories == <<"PC-hontai", "parts", "shuhenkiki", "sonota">>
statuses == <<"zaiko", "hanbaizumi">>
Range(seq) == {seq[i] : i \in DOMAIN seq}
categorySet == Range(categories)
statusSet == Range(statuses)
recordTypeSet == {"item", "expense"}

(***************************************************************************)
(* normalizeItem. The value returned is null (Null), an Item, or, were a   *)
(* property of null or undefined ever read, the TypeError thrown.          *)
(***************************************************************************)
TypeError == [k |-> "TypeError", s |-> "", n |-> 0]

\* line 11: if (!value || typeof value !== "object") return null
NotAnObject_typeofOnly(v) == TypeOf(v) # "object"
NotAnObject(v) == ~Truthy(v) \/ TypeOf(v) # "object"

\* lines 14-22: the five required fields
RequiredMissing(item) ==
    \/ TypeOf(Prop(item, "id")) # "string"
    \/ TypeOf(Prop(item, "name")) # "string"
    \/ TypeOf(Prop(item, "purchasePrice")) # "number"
    \/ TypeOf(Prop(item, "purchaseDate")) # "string"
    \/ TypeOf(Prop(item, "createdAt")) # "string"

\* lines 24-43: the optional fields, each defaulted on its own
StringIn(v, set, default) ==
    IF TypeOf(v) = "string" /\ v.s \in set THEN v.s ELSE default
NumberOr(v, default) == IF TypeOf(v) = "number" THEN v.n ELSE default
StringOr(v, default) == IF TypeOf(v) = "string" THEN v.s ELSE default
NumberOrNull(v) == IF TypeOf(v) = "number" THEN v ELSE Null
StringOrNull(v) == IF TypeOf(v) = "string" THEN v ELSE Null

\* lines 45-59: the record returned
BuildItem_expenseReset(item) ==
    LET recordType == StringIn(Prop(item, "recordType"), recordTypeSet, "item")
        isExpense == recordType = "expense"
    IN  [id |-> Prop(item, "id").s,
         recordType |-> recordType,
         name |-> Prop(item, "name").s,
         category |-> StringIn(Prop(item, "category"), categorySet, "sonota"),
         purchasePrice |-> IF isExpense THEN 0 ELSE Prop(item, "purchasePrice").n,
         purchaseDate |-> Prop(item, "purchaseDate").s,
         miscExpense |-> NumberOr(Prop(item, "miscExpense"), 0),
         consumableExpense |-> NumberOr(Prop(item, "consumableExpense"), 0),
         sellingPrice |-> IF isExpense THEN Null
                          ELSE NumberOrNull(Prop(item, "sellingPrice")),
         soldDate |-> IF isExpense THEN Null
                      ELSE StringOrNull(Prop(item, "soldDate")),
         status |-> IF isExpense THEN "hanbaizumi"
                    ELSE StringIn(Prop(item, "status"), statusSet, "zaiko"),
         memo |-> StringOr(Prop(item, "memo"), ""),
         createdAt |-> Prop(item, "createdAt").s]
BuildItem_statusRequired(item) ==
    [id |-> Prop(item, "id").s,
     recordType |-> StringIn(Prop(item, "recordType"), recordTypeSet, "item"),
     name |-> Prop(item, "name").s,
     category |-> StringIn(Prop(item, "category"), categorySet, "sonota"),
     purchasePrice |-> Prop(item, "purchasePrice").n,
     purchaseDate |-> Prop(item, "purchaseDate").s,
     miscExpense |-> NumberOr(Prop(item, "miscExpense"), 0),
     consumableExpense |-> NumberOr(Prop(item, "consumableExpense"), 0),
     sellingPrice |-> NumberOrNull(Prop(item, "sellingPrice")),
     soldDate |-> StringOrNull(Prop(item, "soldDate")),
     status |-> StringOr(Prop(item, "status"), "zaiko"),
     memo |-> StringOr(Prop(item, "memo"), ""),
     createdAt |-> Prop(item, "createdAt").s]
BuildItem(item) ==
    [id |-> Prop(item, "id").s,
     recordType |-> StringIn(Prop(item, "recordType"), recordTypeSet, "item"),
     name |-> Prop(item, "name").s,
     category |-> StringIn(Prop(item, "category"), categorySet, "sonota"),
     purchasePrice |-> Prop(item, "purchasePrice").n,
     purchaseDate |-> Prop(item, "purchaseDate").s,
     miscExpense |-> NumberOr(Prop(item, "miscExpense"), 0),
     consumableExpense |-> NumberOr(Prop(item, "consumableExpense"), 0),
     sellingPrice |-> NumberOrNull(Prop(item, "sellingPrice")),
     soldDate |-> StringOrNull(Prop(item, "soldDate")),
     status |-> StringIn(Prop(item, "status"), statusSet, "zaiko"),
     memo |-> StringOr(Prop(item, "memo"), ""),
     createdAt |-> Prop(item, "createdAt").s]

normalizeItem(v) ==
    IF NotAnObject(v) THEN Null
    ELSE IF v.k \in {"null", "undefined"} THEN TypeError
    ELSE IF RequiredMissing(v) THEN Null
    ELSE BuildItem(v)

\* a value returned by normalizeItem that is an Item (it has the Item's fields)
IsItem(r) == "id" \in DOMAIN r

(***************************************************************************)
(* Text as SQLite compares it: TEXT values under the BINARY collation are  *)
(* ordered by their UTF-8 bytes. Utf8 lists the bytes of the createdAt     *)
(* strings and of the date strings of the model.                           *)
(***************************************************************************)
Utf8(str) ==
    CASE str = "2025-01-10T10:00:00Z" -> <<50, 48, 50, 53, 45, 48, 49, 45, 49, 48, 84, 49, 48, 58, 48, 48, 58, 48, 48, 90>>
      [] str = "2025-01-10T10:00:00.500Z" -> <<50, 48, 50, 53, 45, 48, 49, 45, 49, 48, 84, 49, 48, 58, 48, 48, 58, 48, 48, 46, 53, 48, 48, 90>>
      [] str = "2025-02-01T09:30:00.000Z" -> <<50, 48, 50, 53, 45, 48, 50, 45, 48, 49, 84, 48, 57, 58, 51, 48, 58, 48, 48, 46, 48, 48, 48, 90>>
      [] str = "2025-01-10" -> <<50, 48, 50, 53, 45, 48, 49, 45, 49, 48>>
      [] str = "2025-01-18" -> <<50, 48, 50, 53, 45, 48, 49, 45, 49, 56>>
      [] str = "2025-01-15" -> <<50, 48, 50, 53, 45, 48, 49, 45, 49, 53>>
      [] str = "2025-01-20" -> <<50, 48, 50, 53, 45, 48, 49, 45, 50, 48>>
      [] str = "2025-01-12" -> <<50, 48, 50, 53, 45, 48, 49, 45, 49, 50>>
      [] str = "2025-01-22" -> <<50, 48, 50, 53, 45, 48, 49, 45, 50, 50>>
      [] str = "2025-02-01" -> <<50, 48, 50, 53, 45, 48, 50, 45, 48, 49>>
      [] str = "2025-01-01" -> <<50, 48, 50, 53, 45, 48, 49, 45, 48, 49>>
      [] str = "2024-12-31" -> <<50, 48, 50, 52, 45, 49, 50, 45, 51, 49>>
      [] str = "0999-12-31" -> <<48, 57, 57, 57, 45, 49, 50, 45, 51, 49>>
      [] str = "not-a-date" -> <<110, 111, 116, 45, 97, 45, 100, 97, 116, 101>>
      [] str = "1" -> <<49>>
      [] str = "2" -> <<50>>
      [] str = "3" -> <<51>>
      [] str = "4" -> <<52>>
      [] str = "5" -> <<53>>
      [] str = "item" -> <<105, 116, 101, 109>>
      [] str = "expense" -> <<101, 120, 112, 101, 110, 115, 101>>
      [] str = "PC-hontai" -> <<80, 67, 45, 104, 111, 110, 116, 97, 105>>
      [] str = "parts" -> <<112, 97, 114, 116, 115>>
      [] str = "shuhenkiki" -> <<115, 104, 117, 104, 101, 110, 107, 105, 107, 105>>
      [] str = "sonota" -> <<115, 111, 110, 111, 116, 97>>
      [] str = "zaiko" -> <<122, 97, 105, 107, 111>>
      [] str = "hanbaizumi" -> <<104, 97, 110, 98, 97, 105, 122, 117, 109, 105>>
      [] str = "id" -> <<105, 100>>
      [] str = "recordType" -> <<114, 101, 99, 111, 114, 100, 84, 121, 112, 101>>
      [] str = "name" -> <<110, 97, 109, 101>>
      [] str = "category" -> <<99, 97, 116, 101, 103, 111, 114, 121>>
      [] str = "purchasePrice" -> <<112, 117, 114, 99, 104, 97, 115, 101, 80, 114, 105, 99, 101>>
      [] str = "purchaseDate" -> <<112, 117, 114, 99, 104, 97, 115, 101, 68, 97, 116, 101>>
      [] str = "miscExpense" -> <<109, 105, 115, 99, 69, 120, 112, 101, 110, 115, 101>>
      [] str = "consumableExpense" -> <<99, 111, 110, 115, 117, 109, 97, 98, 108, 101, 69, 120, 112, 101, 110, 115, 101>>
      [] str = "sellingPrice" -> <<115, 101, 108, 108, 105, 110, 103, 80, 114, 105, 99, 101>>
      [] str = "soldDate" -> <<115, 111, 108, 100, 68, 97, 116, 101>>
      [] str = "status" -> <<115, 116, 97, 116, 117, 115>>
      [] str = "memo" -> <<109, 101, 109, 111>>
      [] str = "createdAt" -> <<99, 114, 101, 97, 116, 101, 100, 65, 116>>
      [] str = "ThinkPad X1 Carbon" -> <<84, 104, 105, 110, 107, 80, 97, 100, 32, 88, 49, 32, 67, 97, 114, 98, 111, 110>>
      [] str = "DDR4 16GB (8GBx2)" -> <<68, 68, 82, 52, 32, 49, 54, 71, 66, 32, 40, 56, 71, 66, 120, 50, 41>>
      [] str = "Dell OptiPlex 7050" -> <<68, 101, 108, 108, 32, 79, 112, 116, 105, 80, 108, 101, 120, 32, 55, 48, 53, 48>>
      [] str = "USB-C hub" -> <<85, 83, 66, 45, 67, 32, 104, 117, 98>>
      [] str = "packing tape" -> <<112, 97, 99, 107, 105, 110, 103, 32, 116, 97, 112, 101>>
      [] str = "thermal paste" -> <<116, 104, 101, 114, 109, 97, 108, 32, 112, 97, 115, 116, 101>>
      [] str = "Core i5 / 8GB RAM" -> <<67, 111, 114, 101, 32, 105, 53, 32, 47, 32, 56, 71, 66, 32, 82, 65, 77>>
      [] str = "PC4-21300" -> <<80, 67, 52, 45, 50, 49, 51, 48, 48>>
      [] str = "Core i5-7500 / SSD 256GB" -> <<67, 111, 114, 101, 32, 105, 53, 45, 55, 53, 48, 48, 32, 47, 32, 83, 83, 68, 32, 50, 53, 54, 71, 66>>
      [] str = "2025-01-15T10:00:00Z" -> <<50, 48, 50, 53, 45, 48, 49, 45, 49, 53, 84, 49, 48, 58, 48, 48, 58, 48, 48, 90>>
      [] str = "2025-01-20T10:00:00Z" -> <<50, 48, 50, 53, 45, 48, 49, 45, 50, 48, 84, 49, 48, 58, 48, 48, 58, 48, 48, 90>>
      [] str = "2025-01-12T10:00:00Z" -> <<50, 48, 50, 53, 45, 48, 49, 45, 49, 50, 84, 49, 48, 58, 48, 48, 58, 48, 48, 90>>
      [] str = "ThinkPad X1, Carbon" -> <<84, 104, 105, 110, 107, 80, 97, 100, 32, 88, 49, 44, 32, 67, 97, 114, 98, 111, 110>>
      [] str = "Dell 24\" monitor" -> <<68, 101, 108, 108, 32, 50, 52, 34, 32, 109, 111, 110, 105, 116, 111, 114>>
      [] str = "SSD 256GB\nno charger" -> <<83, 83, 68, 32, 50, 53, 54, 71, 66, 10, 110, 111, 32, 99, 104, 97, 114, 103, 101, 114>>
      [] str = "SSD 256GB\r\nno charger" -> <<83, 83, 68, 32, 50, 53, 54, 71, 66, 13, 10, 110, 111, 32, 99, 104, 97, 114, 103, 101, 114>>
      [] str = "8GB RAM\rno charger" -> <<56, 71, 66, 32, 82, 65, 77, 13, 110, 111, 32, 99, 104, 97, 114, 103, 101, 114>>
      [] str = "8GB RAMno charger" -> <<56, 71, 66, 32, 82, 65, 77, 110, 111, 32, 99, 104, 97, 114, 103, 101, 114>>
      [] str = " " -> <<32>>
      [] OTHER -> <<>>

\* the strings of the table above, and the empty string
Texts ==
    {"2025-01-10T10:00:00Z", "2025-01-10T10:00:00.500Z", "2025-02-01T09:30:00.000Z", "2025-01-10",
     "2025-01-18", "2025-01-15", "2025-01-20", "2025-01-12",
     "2025-01-22", "2025-02-01", "2025-01-01", "2024-12-31",
     "0999-12-31", "not-a-date", "1", "2",
     "3", "4", "5", "item",
     "expense", "PC-hontai", "parts", "shuhenkiki",
     "sonota", "zaiko", "hanbaizumi", "id",
     "recordType", "name", "category", "purchasePrice",
     "purchaseDate", "miscExpense", "consumableExpense", "sellingPrice",
     "soldDate", "status", "memo", "createdAt",
     "ThinkPad X1 Carbon", "DDR4 16GB (8GBx2)", "Dell OptiPlex 7050", "USB-C hub",
     "packing tape", "thermal paste", "Core i5 / 8GB RAM", "PC4-21300",
     "Core i5-7500 / SSD 256GB", "2025-01-15T10:00:00Z", "2025-01-20T10:00:00Z", "2025-01-12T10:00:00Z",
     "ThinkPad X1, Carbon", "Dell 24\" monitor", "SSD 256GB\nno charger", "SSD 256GB\r\nno charger",
     "8GB RAM\rno charger", "8GB RAMno charger", " ",
     ""}

RECURSIVE BytesLess(_, _)
BytesLess(a, b) ==
    IF b = <<>> THEN FALSE
    ELSE IF a = <<>> THEN TRUE
    ELSE IF Head(a) # Head(b) THEN Head(a) < Head(b)
    ELSE BytesLess(Tail(a), Tail(b))

\* a < b for two TEXT values
TextLess(a, b) == BytesLess(Utf8(a), Utf8(b))

(***************************************************************************)
(* The instant a createdAt string names: Date.parse of                     *)
(* YYYY-MM-DDTHH:mm:ss[.sss]Z, as the seconds since the epoch and the      *)
(* milliseconds within the second.                                         *)
(***************************************************************************)
Digits(bytes, from, to) ==
    LET RECURSIVE Val(_, _)
        Val(i, acc) == IF i > to THEN acc ELSE Val(i + 1, acc * 10 + (bytes[i] - 48))
    IN  Val(from, 0)

DaysFromCivil(year, month, day) ==
    LET y == IF month <= 2 THEN year - 1 ELSE year
        era == y \div 400
        yoe == y - era * 400
        mp == IF month > 2 THEN month - 3 ELSE month + 9
        doy == (153 * mp + 2) \div 5 + day - 1
        doe == yoe * 365 + yoe \div 4 - yoe \div 100 + doy
    IN  era * 146097 + doe - 719468

DateParse(str) ==
    LET b == Utf8(str)
        days == DaysFromCivil(Digits(b, 1, 4), Digits(b, 6, 7), Digits(b, 9, 10))
        secs == Digits(b, 12, 13) * 3600 + Digits(b, 15, 16) * 60 + Digits(b, 18, 19)
        ms == IF b[20] = 46 THEN Digits(b, 21, 23) ELSE 0
    IN  [secs |-> days * 86400 + secs, ms |-> ms]

\* instant a is no earlier than instant b
NoEarlier(a, b) == a.secs > b.secs \/ (a.secs = b.secs /\ a.ms >= b.ms)

(***************************************************************************)
(* Inputs. Record1 is the first record of sample-data.ts and Record2 its    *)
(* second, but for the createdAt; Expense1 and Record2Sold differ from     *)
(* them in every field but the id.                                         *)
(***************************************************************************)
Record1 ==
    [id |-> Str("1"), recordType |-> Str("item"),
     name |-> Str("ThinkPad X1 Carbon"), category |-> Str("PC-hontai"),
     purchasePrice |-> Num(15000), purchaseDate |-> Str("2025-01-10"),
     miscExpense |-> Num(500), consumableExpense |-> Num(300),
     sellingPrice |-> Num(28000), soldDate |-> Str("2025-01-18"),
     status |-> Str("hanbaizumi"), memo |-> Str("Core i5 / 8GB RAM"),
     createdAt |-> Str("2025-01-10T10:00:00Z")]

\* an expense row as a foreign client may send it: a price, and a selling
\* price with no sold date
Expense1 ==
    [id |-> Str("1"), recordType |-> Str("expense"),
     name |-> Str("thermal paste"), category |-> Str("sonota"),
     purchasePrice |-> Num(700), purchaseDate |-> Str("2025-02-01"),
     miscExpense |-> Num(120), consumableExpense |-> Num(80),
     sellingPrice |-> Num(900), soldDate |-> Null,
     status |-> Str("zaiko"), memo |-> Str(""),
     createdAt |-> Str("2025-02-01T09:30:00.000Z")]

\* created by the form half a second after Record1 (new Date().toISOString())
Record2 ==
    [id |-> Str("2"), recordType |-> Str("item"),
     name |-> Str("DDR4 16GB (8GBx2)"), category |-> Str("parts"),
     purchasePrice |-> Num(2000), purchaseDate |-> Str("2025-01-15"),
     miscExpense |-> Num(0), consumableExpense |-> Num(0),
     sellingPrice |-> Null, soldDate |-> Null,
     status |-> Str("zaiko"), memo |-> Str("PC4-21300"),
     createdAt |-> Str("2025-01-10T10:00:00.500Z")]

Record2Sold ==
    [id |-> Str("2"), recordType |-> Str("item"),
     name |-> Str("DDR4 16GB"), category |-> Str("shuhenkiki"),
     purchasePrice |-> Num(1800), purchaseDate |-> Str("2025-01-16"),
     miscExpense |-> Num(50), consumableExpense |-> Num(10),
     sellingPrice |-> Num(3500), soldDate |-> Str("2025-01-22"),
     status |-> Str("hanbaizumi"), memo |-> Str("sold as a pair"),
     createdAt |-> Str("2025-01-10T10:00:00Z")]

\* values a field of an input may carry instead
OtherValues(field) ==
    CASE field = "id" -> {Undef, Num(7), Str("")}
      [] field = "name" -> {Undef, Null, Nested, Str("")}
      [] field = "purchasePrice" -> {Undef, Null, Str("15000"), Num(0)}
      [] field = "purchaseDate" -> {Undef, Num(20250110), Str("not-a-date")}
      [] field = "createdAt" -> {Undef, Bool(TRUE), Str("")}
      [] field = "category" ->
            {Undef, Str("parts"), Str("sonota"), Str("laptop"), Num(1)}
      [] field = "status" ->
            {Undef, Null, Str("zaiko"), Str("hanbaizumi"), Str("sold")}
      [] field = "recordType" ->
            {Undef, Str("item"), Str("expense"), Str("fee"), Num(0)}
      [] field = "sellingPrice" -> {Undef, Null, Num(0), Num(900), Str("900")}
      [] field = "soldDate" -> {Undef, Null, Str("2025-01-18"), Num(1)}
      [] field = "miscExpense" -> {Undef, Null, Num(120), Str("120")}
      [] field = "consumableExpense" -> {Undef, Num(80), Bool(FALSE)}
      [] field = "memo" -> {Undef, Str("note"), Num(3), Arr}
      [] OTHER -> {Undef}

\* the inputs obtained from a well-formed one by replacing these fields
RECURSIVE Deviations(_, _)
Deviations(props, fields) ==
    IF fields = {} THEN {props}
    ELSE LET field == CHOOSE x \in fields : TRUE
         IN  UNION {Deviations([props EXCEPT ![field] = v], fields \ {field}) :
                    v \in OtherValues(field)}

DeviatedFields == {fields \in SUBSET ItemFields : Cardinality(fields) <= MaxDeviations}

NonObjects ==
    {Prim(Undef), Prim(Null), Prim(Bool(FALSE)), Prim(Bool(TRUE)), Prim(Num(0)),
     Prim(Num(15000)), Prim(Str("")), Prim(Str("1")), Prim(Arr)}

(***************************************************************************)
(* db.ts: table items. A row is a record of the 13 columns; selling_price  *)
(* and sold_date are the nullable ones. The table is the set of its rows;  *)
(* the PRIMARY KEY on id is enforced by the statements below.              *)
(***************************************************************************)
\* stmt.run({$id: item.id, ...}): the parameters bound to the columns
BindRow(item) ==
    [id |-> item.id, record_type |-> item.recordType, name |-> item.name,
     category |-> item.category, purchase_price |-> item.purchasePrice,
     purchase_date |-> item.purchaseDate, misc_expense |-> item.miscExpense,
     consumable_expense |-> item.consumableExpense,
     selling_price |-> item.sellingPrice, sold_date |-> item.soldDate,
     status |-> item.status, memo |-> item.memo, created_at |-> item.createdAt]

mapRow(row) ==
    [id |-> row.id, recordType |-> row.record_type, name |-> row.name,
     category |-> row.category, purchasePrice |-> row.purchase_price,
     purchaseDate |-> row.purchase_date, miscExpense |-> row.misc_expense,
     consumableExpense |-> row.consumable_expense,
     sellingPrice |-> IF row.selling_price = Null THEN Null ELSE row.selling_price,
     soldDate |-> IF row.sold_date = Null THEN Null ELSE row.sold_date,
     status |-> row.status, memo |-> row.memo, createdAt |-> row.created_at]

HasId(rows, id) == \E r \in rows : r.id = id

\* INSERT INTO items (...) VALUES (...): a row whose id is taken violates the
\* PRIMARY KEY; the statement throws and inserts nothing
InsertRow_noPrimaryKey(rows, row) == [ok |-> TRUE, rows |-> rows \cup {row}]
InsertRow(rows, row) ==
    IF HasId(rows, row.id)
    THEN [ok |-> FALSE, rows |-> rows]
    ELSE [ok |-> TRUE, rows |-> rows \cup {row}]

\* INSERT ... ON CONFLICT(id) DO UPDATE SET <the 12 other columns> = excluded.<column>
UpsertRow_keepsCreatedAt(rows, row) ==
    IF HasId(rows, row.id)
    THEN {IF r.id = row.id
          THEN [r EXCEPT !.record_type = row.record_type, !.name = row.name,
                         !.category = row.category,
                         !.purchase_price = row.purchase_price,
                         !.purchase_date = row.purchase_date,
                         !.misc_expense = row.misc_expense,
                         !.consumable_expense = row.consumable_expense,
                         !.selling_price = row.selling_price,
                         !.sold_date = row.sold_date, !.status = row.status,
                         !.memo = row.memo]
          ELSE r : r \in rows}
    ELSE rows \cup {row}
UpsertRow(rows, row) ==
    IF HasId(rows, row.id)
    THEN {IF r.id = row.id
          THEN [r EXCEPT !.record_type = row.record_type, !.name = row.name,
                         !.category = row.category,
                         !.purchase_price = row.purchase_price,
                         !.purchase_date = row.purchase_date,
                         !.misc_expense = row.misc_expense,
                         !.consumable_expense = row.consumable_expense,
                         !.selling_price = row.selling_price,
                         !.sold_date = row.sold_date, !.status = row.status,
                         !.memo = row.memo, !.created_at = row.created_at]
          ELSE r : r \in rows}
    ELSE rows \cup {row}

\* INSERT OR REPLACE INTO items: the row holding the id is deleted first
InsertOrReplaceRow(rows, row) == {r \in rows : r.id # row.id} \cup {row}

\* DELETE FROM items WHERE id = $id
DeleteRow_others(rows, id) == {r \in rows : r.id = id}
DeleteRow(rows, id) == {r \in rows : r.id # id}

\* fs.writeFileSync(dbPath, Buffer.from(db.export())): the file holds the
\* image of the table when the write went through (written), and is as it was
\* when writeFileSync threw
persistDb(rows, image, written) ==
    [file |-> IF written THEN rows ELSE image, threw |-> ~written]

(***************************************************************************)
(* The store functions, from after `await ensureDb()` to their return:     *)
(* the database and the file they leave, and whether they threw.           *)
(***************************************************************************)
upsertItem(rows, image, item, written) ==
    LET after == UpsertRow(rows, BindRow(item))
        saved == persistDb(after, image, written)
    IN  [db |-> after, file |-> saved.file, threw |-> saved.threw]

deleteItem(rows, image, id, written) ==
    LET after == DeleteRow(rows, id)
        saved == persistDb(after, image, written)
    IN  [db |-> after, file |-> saved.file, threw |-> saved.threw]

\* items.forEach((item) => stmt.run(...)) over the plain INSERT: the first
\* statement that throws ends the loop, the rows inserted before it stay
RECURSIVE InsertEach(_, _)
InsertEach(rows, items) ==
    IF items = <<>> THEN [ok |-> TRUE, rows |-> rows]
    ELSE LET run == InsertRow(rows, BindRow(Head(items)))
         IN  IF run.ok THEN InsertEach(run.rows, Tail(items))
             ELSE [ok |-> FALSE, rows |-> run.rows]

\* db.run("DELETE FROM items"), the loop, persistDb: a throw skips persistDb
replaceAllItems(rows, image, items, written) ==
    LET loop == InsertEach({}, items)
        saved == persistDb(loop.rows, image, written)
    IN  [db |-> loop.rows,
         file |-> IF loop.ok THEN saved.file ELSE image,
         threw |-> IF loop.ok THEN saved.threw ELSE TRUE]

RECURSIVE ReplaceEach(_, _)
ReplaceEach(rows, items) ==
    IF items = <<>> THEN rows
    ELSE ReplaceEach(InsertOrReplaceRow(rows, BindRow(Head(items))), Tail(items))

insertMany(rows, image, items, written) ==
    LET after == ReplaceEach(rows, items)
        saved == persistDb(after, image, written)
    IN  [db |-> after, file |-> saved.file, threw |-> saved.threw]

\* SELECT * FROM items ORDER BY created_at DESC, each row through mapRow:
\* the lists SQLite may return (rows of equal created_at come in any order)
Lists(rows) ==
    {list \in [1..Cardinality(rows) -> {mapRow(r) : r \in rows}] :
        \A i, j \in DOMAIN list : i # j => list[i] # list[j]}
getAllItems_unordered(rows) == Lists(rows)
getAllItems(rows) ==
    {list \in Lists(rows) :
        \A i \in 1..(Len(list) - 1) : ~TextLess(list[i].createdAt, list[i + 1].createdAt)}

(***************************************************************************)
(* The route handlers. A slot holds one request: pc is where its handler   *)
(* stands ("db": suspended in `await ensureDb()` of the store function it  *)
(* called; "respond": the store function returned or threw, the response   *)
(* is not sent yet), the other fields are the handler's locals and the     *)
(* response it builds.                                                     *)
(***************************************************************************)
Slots == 1..MaxInflight
Ids == {"1", "2"}

Idle ==
    [pc |-> "idle", route |-> "", mode |-> "", id |-> "", item |-> Null,
     items |-> <<>>, status |-> 0, error |-> ""]

PostBodies ==
    {Object(Record1), Object(Expense1), Object(Record2), Object(Record2Sold),
     Object([Record1 EXCEPT !.name = Undef]), Prim(Null)}
PutBodies ==
    {Object(Record1), Object([Record1 EXCEPT !.id = Undef]),
     Object([Record1 EXCEPT !.purchasePrice = Str("15000")]), Prim(Null)}
ImportRows ==
    {Object(Record1), Object(Expense1), Object(Record2),
     Object([Record2 EXCEPT !.createdAt = Undef])}
\* the payload of an import: mode, and items (isArray: Array.isArray(items))
ImportBodies ==
    {[k |-> "null", mode |-> Undef, isArray |-> FALSE, items |-> <<>>]} \cup
    {[k |-> "object", mode |-> m, isArray |-> FALSE, items |-> <<>>] :
        m \in {Str("replace"), Str("merge"), Undef}} \cup
    UNION {{[k |-> "object", mode |-> m, isArray |-> TRUE, items |-> rows] :
              m \in {Str("replace"), Str("merge"), Undef},
              rows \in [1..n -> ImportRows]} : n \in 0..MaxBatch}

\* items.map(normalizeItem).filter((item) => item !== null)
RECURSIVE Normalized(_)
Normalized(items) ==
    IF items = <<>> THEN <<>>
    ELSE LET item == normalizeItem(Head(items))
         IN  IF item = Null THEN Normalized(Tail(items))
             ELSE <<item>> \o Normalized(Tail(items))

Awaiting(route, mode, id, item, items) ==
    [pc |-> "db", route |-> route, mode |-> mode, id |-> id, item |-> item,
     items |-> items, status |-> 0, error |-> ""]
Response(route, mode, id, item, items, status, error) ==
    [pc |-> "respond", route |-> route, mode |-> mode, id |-> id, item |-> item,
     items |-> items, status |-> status, error |-> error]

\* POST /api/items, up to `await upsertItem(normalized)`
PostItem(s, body) ==
    /\ inflight[s].pc = "idle"
    /\ LET normalized == normalizeItem(body) IN
       inflight' = [inflight EXCEPT ![s] =
           IF IsItem(normalized)
           THEN Awaiting("POST /api/items", "", "", normalized, <<>>)
           ELSE Response("POST /api/items", "", "", Null, <<>>, 400, "Invalid item")]
    /\ UNCHANGED <<db, file, value, result, viewVars>>

\* {...body, id: params.id}
WithId_bodyFirst(body, id) ==
    Object([field \in ItemFields |->
              IF field = "id" /\ Prop(body, "id") = Undef THEN Str(id)
              ELSE Prop(body, field)])
WithId(body, id) ==
    Object([field \in ItemFields |->
              IF field = "id" THEN Str(id) ELSE Prop(body, field)])

\* PUT /api/items/[id], up to `await upsertItem(normalized)`
PutItem(s, id, body) ==
    /\ inflight[s].pc = "idle"
    /\ LET normalized == normalizeItem(WithId(body, id)) IN
       inflight' = [inflight EXCEPT ![s] =
           IF IsItem(normalized)
           THEN Awaiting("PUT /api/items/[id]", "", id, normalized, <<>>)
           ELSE Response("PUT /api/items/[id]", "", id, Null, <<>>, 400, "Invalid item")]
    /\ UNCHANGED <<db, file, value, result, viewVars>>

\* DELETE /api/items/[id], up to `await deleteItem(params.id)`
DeleteItemRequest(s, id) ==
    /\ inflight[s].pc = "idle"
    /\ inflight' = [inflight EXCEPT ![s] =
           Awaiting("DELETE /api/items/[id]", "", id, Null, <<>>)]
    /\ UNCHANGED <<db, file, value, result, viewVars>>

\* GET /api/items, up to `await getAllItems()`
GetItems(s) ==
    /\ inflight[s].pc = "idle"
    /\ inflight' = [inflight EXCEPT ![s] = Awaiting("GET /api/items", "", "", Null, <<>>)]
    /\ UNCHANGED <<db, file, value, result, viewVars>>

\* if (normalized.length === 0) return 400
NoValidItems_never(normalized) == FALSE
NoValidItems(normalized) == Len(normalized) = 0

\* POST /api/items/import, up to `await replaceAllItems(normalized)` or
\* `await insertMany(normalized)`
ImportItems(s, body) ==
    /\ inflight[s].pc = "idle"
    /\ LET mode == IF body.mode = Str("replace") THEN "replace" ELSE "merge"
           items == IF body.isArray THEN body.items ELSE <<>>
           normalized == Normalized(items)
       IN  inflight' = [inflight EXCEPT ![s] =
               IF NoValidItems(normalized)
               THEN Response("POST /api/items/import", mode, "", Null, <<>>,
                             400, "No valid items")
               ELSE Awaiting("POST /api/items/import", mode, "", Null, normalized)]
    /\ UNCHANGED <<db, file, value, result, viewVars>>

\* the rest of a store function, and of the handler when it threw
Settle(s, out, item, items) ==
    /\ db' = out.db
    /\ file' = out.file
    /\ inflight' = [inflight EXCEPT ![s] =
           IF out.threw
           THEN Response(inflight[s].route, inflight[s].mode, inflight[s].id,
                         Null, <<>>, 500, "Internal Server Error")
           ELSE Response(inflight[s].route, inflight[s].mode, inflight[s].id,
                         item, items, 200, "")]
    /\ UNCHANGED <<value, result, viewVars>>

UpsertStep(s) ==
    /\ inflight[s].pc = "db"
    /\ inflight[s].route \in {"POST /api/items", "PUT /api/items/[id]"}
    /\ Settle(s, upsertItem(db, file, inflight[s].item, TRUE), inflight[s].item, <<>>)

DeleteStep(s) ==
    /\ inflight[s].pc = "db"
    /\ inflight[s].route = "DELETE /api/items/[id]"
    /\ Settle(s, deleteItem(db, file, inflight[s].id, TRUE), Null, <<>>)

GetStep(s) ==
    /\ inflight[s].pc = "db"
    /\ inflight[s].route = "GET /api/items"
    /\ \E items \in getAllItems(db) :
          Settle(s, [db |-> db, file |-> file, threw |-> FALSE], Null, items)

ReplaceStep(s) ==
    /\ inflight[s].pc = "db"
    /\ inflight[s].route = "POST /api/items/import"
    /\ inflight[s].mode = "replace"
    /\ Settle(s, replaceAllItems(db, file, inflight[s].items, TRUE), Null, <<>>)

InsertManyStep(s) ==
    /\ inflight[s].pc = "db"
    /\ inflight[s].route = "POST /api/items/import"
    /\ inflight[s].mode = "merge"
    /\ Settle(s, insertMany(db, file, inflight[s].items, TRUE), Null, <<>>)

\* return NextResponse.json(...): the response leaves, the slot is free
Respond(s) ==
    /\ inflight[s].pc = "respond"
    /\ inflight' = [inflight EXCEPT ![s] = Idle]
    /\ UNCHANGED <<db, file, value, result, viewVars>>

\* the store functions when fs.writeFileSync throws (disk full, file locked,
\* directory gone): the statements have run, persistDb rejects
UpsertFault(s) ==
    /\ inflight[s].pc = "db"
    /\ inflight[s].route \in {"POST /api/items", "PUT /api/items/[id]"}
    /\ Settle(s, upsertItem(db, file, inflight[s].item, FALSE), inflight[s].item, <<>>)

DeleteFault(s) ==
    /\ inflight[s].pc = "db"
    /\ inflight[s].route = "DELETE /api/items/[id]"
    /\ Settle(s, deleteItem(db, file, inflight[s].id, FALSE), Null, <<>>)

ReplaceFault(s) ==
    /\ inflight[s].pc = "db"
    /\ inflight[s].route = "POST /api/items/import"
    /\ inflight[s].mode = "replace"
    /\ InsertEach({}, inflight[s].items).ok
    /\ Settle(s, replaceAllItems(db, file, inflight[s].items, FALSE), Null, <<>>)

InsertManyFault(s) ==
    /\ inflight[s].pc = "db"
    /\ inflight[s].route = "POST /api/items/import"
    /\ inflight[s].mode = "merge"
    /\ Settle(s, insertMany(db, file, inflight[s].items, FALSE), Null, <<>>)

(***************************************************************************)
(* new Date(dateString) and the local calendar fields read from it.        *)
(* A date-only string YYYY-MM-DD names midnight UTC of that day; any other *)
(* string of the model ("", "not-a-date") is one that no engine's parser   *)
(* accepts, so it gives an invalid Date (getTime() is NaN).                *)
(* getFullYear and getMonth read the date in the local time zone.          *)
(***************************************************************************)
IsDigits(bytes, from, to) == \A i \in from..to : bytes[i] \in 48..57

DaysInMonth(year, month) ==
    CASE month \in {4, 6, 9, 11} -> 30
      [] month = 2 ->
            IF year % 4 = 0 /\ (year % 100 # 0 \/ year % 400 = 0) THEN 29 ELSE 28
      [] OTHER -> 31

IsIsoDate(bytes) ==
    /\ Len(bytes) = 10
    /\ IsDigits(bytes, 1, 4) /\ bytes[5] = 45
    /\ IsDigits(bytes, 6, 7) /\ bytes[8] = 45
    /\ IsDigits(bytes, 9, 10)
    /\ Digits(bytes, 6, 7) \in 1..12
    /\ Digits(bytes, 9, 10) \in
          1..DaysInMonth(Digits(bytes, 1, 4), Digits(bytes, 6, 7))

\* new Date(dateString): valid, and the day (since the epoch) of its instant
NewDate(dateString) ==
    LET bytes == Utf8(dateString) IN
    IF IsIsoDate(bytes)
    THEN [valid |-> TRUE,
          day |-> DaysFromCivil(Digits(bytes, 1, 4), Digits(bytes, 6, 7),
                                Digits(bytes, 9, 10))]
    ELSE [valid |-> FALSE, day |-> 0]

CivilFromDays(days) ==
    LET z == days + 719468
        era == z \div 146097
        doe == z - era * 146097
        yoe == (doe - doe \div 1460 + doe \div 36524 - doe \div 146096) \div 365
        doy == doe - (365 * yoe + yoe \div 4 - yoe \div 100)
        mp == (5 * doy + 2) \div 153
        month == IF mp < 10 THEN mp + 3 ELSE mp - 9
    IN  [year |-> yoe + era * 400 + (IF month <= 2 THEN 1 ELSE 0),
         month |-> month,
         day |-> doy - (153 * mp + 2) \div 5 + 1]

\* the local calendar day of a Date at midnight UTC, tz minutes ahead of UTC
LocalDate(date, tz) == CivilFromDays(date.day + (IF tz < 0 THEN -1 ELSE 0))
getFullYear(date, tz) == LocalDate(date, tz).year
\* date.getMonth() + 1
getMonth1(date, tz) == LocalDate(date, tz).month

\* `${n}`: the decimal digits of an integer
RECURSIVE Decimal(_)
Decimal(n) ==
    IF n < 0 THEN <<45>> \o Decimal(0 - n)
    ELSE IF n < 10 THEN <<48 + n>>
    ELSE Decimal(n \div 10) \o <<48 + (n % 10)>>

\* String(n).padStart(2, "0")
PadStart2(n) == IF n \in 0..9 THEN <<48>> \o Decimal(n) ELSE Decimal(n)

\* a.localeCompare(b) for bucket keys, which consist of digits and "-":
\* the collation orders these characters as their code points are ordered
localeCompare(a, b) ==
    IF BytesLess(a, b) THEN -1 ELSE IF BytesLess(b, a) THEN 1 ELSE 0

(***************************************************************************)
(* page.tsx: the CSV export and import. A text is the sequence of its      *)
(* character codes; the strings of the model are ASCII, so Utf8 gives the  *)
(* characters of a string and FromChars the string of its characters.      *)
(* 34 is the quote character, 44 the comma, 10 the newline and 13 the      *)
(* carriage return.                                                        *)
(***************************************************************************)
Unlisted == "(a string that Utf8 does not list)"
FromChars(chars) ==
    IF \E str \in Texts : Utf8(str) = chars
    THEN CHOOSE str \in Texts : Utf8(str) = chars
    ELSE Unlisted

CSV_HEADERS ==
    <<"id", "recordType", "name", "category", "purchasePrice", "purchaseDate",
      "miscExpense", "consumableExpense", "sellingPrice", "soldDate", "status",
      "memo", "createdAt">>

\* list.join(separator) for a list of texts
RECURSIVE Join(_, _)
Join(list, separator) ==
    IF list = <<>> THEN <<>>
    ELSE IF Len(list) = 1 THEN list[1]
    ELSE list[1] \o separator \o Join(Tail(list), separator)

\* value.includes(char)
Includes(chars, char) == \E i \in DOMAIN chars : chars[i] = char

\* value.replace(/"/g, '""')
RECURSIVE DoubleQuotes(_)
DoubleQuotes(chars) ==
    IF chars = <<>> THEN <<>>
    ELSE (IF Head(chars) = 34 THEN <<34, 34>> ELSE <<Head(chars)>>)
         \o DoubleQuotes(Tail(chars))

escapeCsvValue(chars) ==
    IF Includes(chars, 34) \/ Includes(chars, 44) \/ Includes(chars, 10)
    THEN <<34>> \o DoubleQuotes(chars) \o <<34>>
    ELSE chars

\* value === null ? "" : String(value)
StringOf(v) ==
    IF v.k = "null" THEN <<>>
    ELSE IF v.k = "number" THEN Decimal(v.n)
    ELSE Utf8(v.s)

toCsvRow(values) ==
    Join([i \in DOMAIN values |-> escapeCsvValue(StringOf(values[i]))], <<44>>)

serializeCsv(items) ==
    LET Row(item) ==
            toCsvRow(<<Str(item.id), Str(item.recordType), Str(item.name),
                       Str(item.category), Num(item.purchasePrice),
                       Str(item.purchaseDate), Num(item.miscExpense),
                       Num(item.consumableExpense), item.sellingPrice,
                       item.soldDate, Str(item.status), Str(item.memo),
                       Str(item.createdAt)>>)
        rows == <<Join([i \in DOMAIN CSV_HEADERS |-> Utf8(CSV_HEADERS[i])], <<44>>)>>
                \o [i \in DOMAIN items |-> Row(items[i])]
    IN  Join(rows, <<10>>)

\* one pass of the loop of parseCsv: st holds the loop's i (1-based), rows,
\* current, value (cell) and inQuotes
ScanStep(chars, st) ==
    LET char == chars[st.i] IN
    IF st.inQuotes
    THEN IF char = 34 /\ st.i < Len(chars) /\ chars[st.i + 1] = 34
         THEN [st EXCEPT !.cell = Append(@, 34), !.i = @ + 2]
         ELSE IF char = 34
         THEN [st EXCEPT !.inQuotes = FALSE, !.i = @ + 1]
         ELSE [st EXCEPT !.cell = Append(@, char), !.i = @ + 1]
    ELSE IF char = 34
    THEN [st EXCEPT !.inQuotes = TRUE, !.i = @ + 1]
    ELSE IF char = 44
    THEN [st EXCEPT !.current = Append(@, st.cell), !.cell = <<>>, !.i = @ + 1]
    ELSE IF char = 10
    THEN [st EXCEPT !.rows = Append(@, Append(st.current, st.cell)),
                    !.current = <<>>, !.cell = <<>>, !.i = @ + 1]
    ELSE IF char # 13
    THEN [st EXCEPT !.cell = Append(@, char), !.i = @ + 1]
    ELSE [st EXCEPT !.i = @ + 1]

\* up to n passes of the loop
RECURSIVE ScanSome(_, _, _)
ScanSome(chars, st, n) ==
    IF n = 0 \/ st.i > Len(chars) THEN st
    ELSE ScanSome(chars, ScanStep(chars, st), n - 1)

\* the loop to its end (evaluated 32 passes at a time), then the last
\* current.push(value); rows.push(current)
RECURSIVE Scan(_, _)
Scan(chars, st) ==
    IF st.i > Len(chars) THEN Append(st.rows, Append(st.current, st.cell))
    ELSE Scan(chars, ScanSome(chars, st, 32))

\* the ASCII characters that trim() removes
WhiteSpace == {9, 10, 11, 12, 13, 32}

\* cell.trim()
RECURSIVE Trim(_)
Trim(chars) ==
    IF chars = <<>> THEN <<>>
    ELSE IF Head(chars) \in WhiteSpace THEN Trim(Tail(chars))
    ELSE IF chars[Len(chars)] \in WhiteSpace THEN Trim(SubSeq(chars, 1, Len(chars) - 1))
    ELSE chars

parseCsv(chars) ==
    LET Filled(row) == \E i \in DOMAIN row : Trim(row[i]) # <<>>
    IN  SelectSeq(Scan(chars, [i |-> 1, rows |-> <<>>, current |-> <<>>,
                               cell |-> <<>>, inQuotes |-> FALSE]), Filled)

\* Number(value) of a cell that is not empty: a decimal integer with an
\* optional sign, white space around it ignored; a cell of white space is 0;
\* any other cell of the model's texts is NaN
NaN == [k |-> "number", s |-> "NaN", n |-> 0]
Number(chars) ==
    LET trimmed == Trim(chars)
        signed == trimmed # <<>> /\ trimmed[1] \in {43, 45}
        digits == IF signed THEN Tail(trimmed) ELSE trimmed
    IN  IF trimmed = <<>> THEN Num(0)
        ELSE IF digits # <<>> /\ IsDigits(digits, 1, Len(digits))
        THEN Num((IF signed /\ trimmed[1] = 45 THEN -1 ELSE 1)
                 * Digits(digits, 1, Len(digits)))
        ELSE NaN

\* the object rowsToItems builds of one row: row[index] ?? "" by header
RawOf(row) ==
    [header \in ItemFields |->
        LET index == CHOOSE i \in DOMAIN CSV_HEADERS : CSV_HEADERS[i] = header
            cell == IF index \in DOMAIN row THEN row[index] ELSE <<>>
        IN  IF header \in {"purchasePrice", "miscExpense", "consumableExpense"}
            THEN IF cell = <<>> THEN Num(0) ELSE Number(cell)
            ELSE IF header = "sellingPrice"
            THEN IF cell = <<>> THEN Null ELSE Number(cell)
            ELSE Str(FromChars(cell))]

\* rows.flatMap(...): the rows that normalizeItem accepts, in order
RECURSIVE ItemsOfRows(_)
ItemsOfRows(rows) ==
    IF rows = <<>> THEN <<>>
    ELSE LET normalized == normalizeItem(Object(RawOf(Head(rows))))
         IN  (IF normalized # Null THEN <<normalized>> ELSE <<>>)
             \o ItemsOfRows(Tail(rows))

rowsToItems(rows) ==
    IF rows = <<>> THEN <<>>
    ELSE LET headerRow == [i \in DOMAIN rows[1] |-> Trim(rows[1][i])]
             header == Join([i \in DOMAIN CSV_HEADERS |-> Utf8(CSV_HEADERS[i])], <<44>>)
             startIndex == IF Join(headerRow, <<44>>) = header THEN 1 ELSE 0
         IN  ItemsOfRows(SubSeq(rows, startIndex + 1, Len(rows)))

(***************************************************************************)
(* utils.ts: calculateProfit, calculateSummary. An Item is a record as     *)
(* normalizeItem builds it: sellingPrice and soldDate are Null or a value. *)
(* Amounts are whole numbers (yen).                                        *)
(***************************************************************************)
\* x || 0 for a number x
OrZero(x) == IF x # 0 THEN x ELSE 0

\* items.filter(keep) is SelectSeq(items, keep)

\* numbers.reduce((sum, x) => sum + x, 0)
Sum(numbers) ==
    LET RECURSIVE From(_, _)
        From(i, sum) ==
            IF i > Len(numbers) THEN sum ELSE From(i + 1, sum + numbers[i])
    IN  From(1, 0)

calculateProfit_zeroWhenUnsold(item) ==
    IF item.recordType = "expense" THEN Num(0)
    ELSE IF item.sellingPrice = Null THEN Num(0)
    ELSE Num(item.sellingPrice.n - item.purchasePrice
             - (OrZero(item.miscExpense) + OrZero(item.consumableExpense)))
calculateProfit(item) ==
    IF item.recordType = "expense" THEN Null
    ELSE IF item.sellingPrice = Null THEN Null
    ELSE LET extraCosts == OrZero(item.miscExpense) + OrZero(item.consumableExpense)
         IN  Num(item.sellingPrice.n - item.purchasePrice - extraCosts)

calculateSummary_countsExpenses(items) ==
    LET IsStock(item) == item.status = "zaiko"
        IsSold(item) == item.status = "hanbaizumi"
        Profit(item) == IF calculateProfit(item) = Null THEN 0
                        ELSE calculateProfit(item).n
        stockItems == SelectSeq(items, IsStock)
        soldItems == SelectSeq(items, IsSold)
    IN  [totalStock |-> Len(stockItems),
         totalSold |-> Len(soldItems),
         totalProfit |-> Sum([i \in DOMAIN soldItems |-> Profit(soldItems[i])]),
         stockValue |-> Sum([i \in DOMAIN stockItems |-> stockItems[i].purchasePrice]),
         totalMiscExpense |-> Sum([i \in DOMAIN items |-> OrZero(items[i].miscExpense)]),
         totalConsumableExpense |->
             Sum([i \in DOMAIN items |-> OrZero(items[i].consumableExpense)])]
calculateSummary(items) ==
    LET NotExpense(item) == item.recordType # "expense"
        IsStock(item) == item.status = "zaiko"
        IsSold(item) == item.status = "hanbaizumi"
        Misc(item) == OrZero(item.miscExpense)
        Consumable(item) == OrZero(item.consumableExpense)
        \* profit ?? 0
        Profit(item) == IF calculateProfit(item) = Null THEN 0
                        ELSE calculateProfit(item).n
        Price(item) == item.purchasePrice
        itemRecords == SelectSeq(items, NotExpense)
        stockItems == SelectSeq(itemRecords, IsStock)
        soldItems == SelectSeq(itemRecords, IsSold)
    IN  [totalStock |-> Len(stockItems),
         totalSold |-> Len(soldItems),
         totalProfit |-> Sum([i \in DOMAIN soldItems |-> Profit(soldItems[i])]),
         stockValue |-> Sum([i \in DOMAIN stockItems |-> Price(stockItems[i])]),
         totalMiscExpense |-> Sum([i \in DOMAIN items |-> Misc(items[i])]),
         totalConsumableExpense |-> Sum([i \in DOMAIN items |-> Consumable(items[i])])]

(***************************************************************************)
(* cashflow/page.tsx: collectTransactions, buildCashflow,                  *)
(* buildCategoryBreakdown. A Map is the sequence of its entries in         *)
(* insertion order.                                                        *)
(***************************************************************************)
Transaction(date, income, expense, category) ==
    [date |-> date, income |-> income, expense |-> expense, category |-> category]

\* the rows collectTransactions pushes for one item
TransactionsOf(item) ==
    IF item.recordType = "expense"
    THEN <<Transaction(item.purchaseDate, 0,
                       OrZero(item.miscExpense) + OrZero(item.consumableExpense),
                       item.category)>>
    ELSE <<Transaction(item.purchaseDate, 0,
                       item.purchasePrice + OrZero(item.miscExpense)
                           + OrZero(item.consumableExpense),
                       item.category)>> \o
         (IF Truthy(item.sellingPrice) /\ Truthy(item.soldDate)
          THEN <<Transaction(item.soldDate.s, item.sellingPrice.n, 0, item.category)>>
          ELSE <<>>)

RECURSIVE collectTransactions(_)
collectTransactions(items) ==
    IF items = <<>> THEN <<>>
    ELSE TransactionsOf(Head(items)) \o collectTransactions(Tail(items))

\* the index of the entry of a Map under a key, 0 when there is none
IndexOfKey(map, key) ==
    IF \E i \in DOMAIN map : map[i].key = key
    THEN CHOOSE i \in DOMAIN map : map[i].key = key
    ELSE 0

\* the key and the label (year, month; month 0 in a year label) of a bucket
BucketKey(year, month, granularity) ==
    IF granularity = "month"
    THEN Decimal(year) \o <<45>> \o PadStart2(month)
    ELSE Decimal(year)
BucketLabel(year, month, granularity) ==
    IF granularity = "month" THEN <<year, month>> ELSE <<year, 0>>

Accumulate(map, key, label, income, expense) ==
    LET i == IndexOfKey(map, key)
        current == IF i # 0 THEN map[i]
                   ELSE [key |-> key, label |-> label, income |-> 0, expense |-> 0]
        updated == [current EXCEPT !.income = @ + income, !.expense = @ + expense]
    IN  IF i # 0 THEN [map EXCEPT ![i] = updated] ELSE Append(map, updated)

\* without the isNaN return: year and month of an invalid Date are NaN
add_keepsInvalid(map, dateString, income, expense, granularity, tz) ==
    LET date == NewDate(dateString) IN
    IF ~date.valid
    THEN Accumulate(map, IF granularity = "month"
                         THEN <<78, 97, 78, 45, 78, 97, 78>> ELSE <<78, 97, 78>>,
                    <<0, 0>>, income, expense)
    ELSE Accumulate(map,
                    BucketKey(getFullYear(date, tz), getMonth1(date, tz), granularity),
                    BucketLabel(getFullYear(date, tz), getMonth1(date, tz), granularity),
                    income, expense)
add(map, dateString, income, expense, granularity, tz) ==
    LET date == NewDate(dateString) IN
    IF ~date.valid THEN map
    ELSE LET year == getFullYear(date, tz)
             month == getMonth1(date, tz)
         IN  Accumulate(map, BucketKey(year, month, granularity),
                        BucketLabel(year, month, granularity), income, expense)

\* rows.sort((a, b) => b.key.localeCompare(a.key)): a stable sort, here by
\* insertion
SortRows(rows) ==
    LET compare(a, b) == localeCompare(b.key, a.key)
        RECURSIVE Insert(_, _)
        Insert(sorted, row) ==
            IF sorted = <<>> THEN <<row>>
            ELSE IF compare(Head(sorted), row) > 0 THEN <<row>> \o sorted
            ELSE <<Head(sorted)>> \o Insert(Tail(sorted), row)
        RECURSIVE From(_, _)
        From(i, sorted) ==
            IF i > Len(rows) THEN sorted ELSE From(i + 1, Insert(sorted, rows[i]))
    IN  From(1, <<>>)

BucketsOf(transactions, granularity, tz) ==
    LET RECURSIVE From(_, _)
        From(i, map) ==
            IF i > Len(transactions) THEN map
            ELSE From(i + 1, add(map, transactions[i].date, transactions[i].income,
                                 transactions[i].expense, granularity, tz))
        map == From(1, <<>>)
    IN  [i \in DOMAIN map |->
            [key |-> map[i].key, label |-> map[i].label, income |-> map[i].income,
             expense |-> map[i].expense, net |-> map[i].income - map[i].expense]]

buildCashflow_unsorted(transactions, granularity, tz) ==
    BucketsOf(transactions, granularity, tz)
buildCashflow(transactions, granularity, tz) ==
    SortRows(BucketsOf(transactions, granularity, tz))

IndexOfCategory(map, category) ==
    IF \E i \in DOMAIN map : map[i].category = category
    THEN CHOOSE i \in DOMAIN map : map[i].category = category
    ELSE 0

CategoryTotals(transactions) ==
    LET RECURSIVE From(_, _)
        From(i, map) ==
            IF i > Len(transactions) THEN map
            ELSE LET t == transactions[i]
                     at == IndexOfCategory(map, t.category)
                     current == IF at # 0 THEN map[at]
                                ELSE [category |-> t.category, income |-> 0, expense |-> 0]
                     updated == [current EXCEPT !.income = @ + t.income,
                                                !.expense = @ + t.expense]
                 IN  From(i + 1, IF at # 0 THEN [map EXCEPT ![at] = updated]
                                 ELSE Append(map, updated))
    IN  From(1, [i \in DOMAIN categories |->
                    [category |-> categories[i], income |-> 0, expense |-> 0]])

CategoryRows(transactions) ==
    LET map == CategoryTotals(transactions)
    IN  [i \in DOMAIN categories |->
            LET at == IndexOfCategory(map, categories[i])
                totals == IF at # 0 THEN map[at]
                          ELSE [category |-> categories[i], income |-> 0, expense |-> 0]
            IN  [category |-> categories[i], income |-> totals.income,
                 expense |-> totals.expense, net |-> totals.income - totals.expense]]

buildCategoryBreakdown_netOnly(transactions) ==
    LET Kept(row) == row.net # 0
    IN  SelectSeq(CategoryRows(transactions), Kept)
buildCategoryBreakdown(transactions) ==
    LET Kept(row) == row.income # 0 \/ row.expense # 0 \/ row.net # 0
    IN  SelectSeq(CategoryRows(transactions), Kept)

(***************************************************************************)
(* cashflow/page.tsx: the date range of a preset and the totals. An        *)
(* instant is counted in minutes since the epoch; a day has 1440 minutes.  *)
(* The Date of a date string is at midnight UTC; new Date(y, m, d) is at   *)
(* the local midnight. The end of a range is the local 23:59:59.999, which *)
(* orders against instants of whole minutes as 23:59 does.                 *)
(***************************************************************************)
\* date.getTime() of a valid Date
InstantOf(date) == date.day * 1440
\* new Date(year, month - 1, day)
LocalMidnight(year, month, day, tz) == DaysFromCivil(year, month, day) * 1440 - tz
\* end.setHours(23, 59, 59, 999): the last minute of the local day of instant
EndOfDay(instant, tz) == ((instant + tz) \div 1440) * 1440 + 1439 - tz

NoInstant == [set |-> FALSE, at |-> 0]
At(instant) == [set |-> TRUE, at |-> instant]

dateRange(picked, clock, tz) ==
    IF picked.preset = "this-month"
    THEN [start |-> At(LocalMidnight(clock.year, clock.month, 1, tz)),
          end |-> At(EndOfDay(LocalMidnight(clock.year, clock.month,
                                            DaysInMonth(clock.year, clock.month), tz),
                              tz))]
    ELSE IF picked.preset = "this-year"
    THEN [start |-> At(LocalMidnight(clock.year, 1, 1, tz)),
          end |-> At(EndOfDay(LocalMidnight(clock.year, 12, 31, tz), tz))]
    ELSE IF picked.preset = "custom"
    THEN [start |-> IF picked.startDate # ""
                    THEN At(InstantOf(NewDate(picked.startDate))) ELSE NoInstant,
          end |-> IF picked.endDate # ""
                  THEN At(EndOfDay(InstantOf(NewDate(picked.endDate)), tz))
                  ELSE NoInstant]
    ELSE [start |-> NoInstant, end |-> NoInstant]

isWithinRange(dateString, start, end) ==
    LET date == NewDate(dateString) IN
    IF ~date.valid THEN FALSE
    ELSE IF start.set /\ InstantOf(date) < start.at THEN FALSE
    ELSE IF end.set /\ InstantOf(date) > end.at THEN FALSE
    ELSE TRUE

filteredTransactions(items, picked, clock, tz) ==
    LET all == collectTransactions(items)
        between == dateRange(picked, clock, tz)
        Within(transaction) == isWithinRange(transaction.date, between.start, between.end)
    IN  IF ~between.start.set /\ ~between.end.set THEN all
        ELSE SelectSeq(all, Within)

calculateTotals(transactions) ==
    LET income == Sum([i \in DOMAIN transactions |-> transactions[i].income])
        expense == Sum([i \in DOMAIN transactions |-> transactions[i].expense])
    IN  [income |-> income, expense |-> expense, net |-> income - expense]

(***************************************************************************)
(* The Normalizer on its own: one call of normalizeItem per behaviour.     *)
(***************************************************************************)
NotRun == [k |-> "not run", s |-> "", n |-> 0]

\* the state of the two pages as their useState calls create it, an empty
\* localStorage, a clock, and no exported file
HomeState ==
    [importError |-> Null, isSaving |-> FALSE, isModalOpen |-> FALSE,
     editingItem |-> Null]
AllDates == [preset |-> "all", startDate |-> "", endDate |-> ""]
NoFile == [written |-> FALSE, chars |-> <<>>]
PagesClosed ==
    /\ home = HomeState
    /\ calls = <<>>
    /\ storage = Null
    /\ range = AllDates
    /\ now = [year |-> 2025, month |-> 2]
    /\ text = NoFile
    /\ sent = 0

InitNormalize ==
    /\ \/ value \in NonObjects
       \/ \E base \in {Record1, Expense1}, fields \in DeviatedFields :
            value \in {Object(props) : props \in Deviations(base, fields)}
    /\ result = NotRun
    /\ db = {}
    /\ file = {}
    /\ inflight = <<>>
    /\ records = <<>>
    /\ zone = 0
    /\ shown = NotRun
    /\ PagesClosed

Normalize ==
    /\ result = NotRun
    /\ result' = normalizeItem(value)
    /\ UNCHANGED <<value, db, file, inflight, viewVars>>

NextNormalize == Normalize

SpecNormalize == InitNormalize /\ [][NextNormalize]_vars

(***************************************************************************)
(* The Aggregator on its own: a page holds a record list and renders it.   *)
(* The records are Items (every one passed normalizeItem): the sample      *)
(* items and variations of them.                                           *)
(***************************************************************************)
Sample1 == normalizeItem(Object(Record1))
Sample2 == [normalizeItem(Object(Record2)) EXCEPT !.createdAt = "2025-01-15T10:00:00Z"]
Sample3 ==
    [Sample2 EXCEPT !.id = "3", !.name = "Dell OptiPlex 7050",
        !.category = "PC-hontai", !.purchasePrice = 8000,
        !.purchaseDate = "2025-01-20", !.miscExpense = 200,
        !.consumableExpense = 150, !.memo = "Core i5-7500 / SSD 256GB",
        !.createdAt = "2025-01-20T10:00:00Z"]
\* an expense as the form saves it
ExpenseRow ==
    [Sample2 EXCEPT !.id = "5", !.recordType = "expense", !.name = "packing tape",
        !.category = "sonota", !.purchasePrice = 0, !.purchaseDate = "2025-02-01",
        !.consumableExpense = 100, !.status = "hanbaizumi", !.memo = ""]

Sample4 ==
    [Sample1 EXCEPT !.id = "4", !.name = "USB-C hub", !.category = "shuhenkiki",
        !.purchasePrice = 500, !.purchaseDate = "2025-01-12", !.miscExpense = 0,
        !.consumableExpense = 100, !.sellingPrice = Num(1500),
        !.soldDate = Str("2025-01-22"), !.memo = "",
        !.createdAt = "2025-01-12T10:00:00Z"]
sampleItems == <<Sample1, Sample2, Sample3, Sample4>>

AggregatedItems ==
    {Sample1, Sample2, ExpenseRow,
     \* an expense as a foreign client may have stored it
     normalizeItem(Object(Expense1)),
     \* an expense with nothing spent, on new year's day
     [ExpenseRow EXCEPT !.consumableExpense = 0, !.category = "parts",
         !.purchaseDate = "2025-01-01"],
     \* a sale price with no sold date, and a sold date with no sale price
     [Sample1 EXCEPT !.soldDate = Null],
     [Sample1 EXCEPT !.sellingPrice = Null],
     \* given away, and sold at cost
     [Sample1 EXCEPT !.sellingPrice = Num(0), !.soldDate = Str("2025-02-01")],
     [Sample3 EXCEPT !.category = "shuhenkiki", !.miscExpense = 0,
         !.consumableExpense = 0, !.sellingPrice = Num(8000),
         !.soldDate = Str("2025-01-22"), !.status = "hanbaizumi"],
     \* dates that do not parse: of a sold item, and of a row imported with an
     \* empty sold date cell
     [Sample1 EXCEPT !.purchaseDate = "not-a-date"],
     [Sample2 EXCEPT !.purchaseDate = "not-a-date", !.sellingPrice = Num(900),
         !.soldDate = Str("")],
     \* a mistyped year
     [Sample2 EXCEPT !.purchaseDate = "0999-12-31"]}

\* New York (winter) and Tokyo
Zones == {-300, 540}

RECURSIVE ListsOf(_, _)
ListsOf(set, n) ==
    IF n = 0 THEN {<<>>}
    ELSE ListsOf(set, n - 1) \cup [1..n -> set]

InitAggregate ==
    /\ records \in ListsOf(AggregatedItems, MaxRecords)
                  \cup {sampleItems, <<Sample1, Sample2, Sample3, ExpenseRow>>}
    /\ zone \in Zones
    /\ shown = NotRun
    /\ db = {}
    /\ file = {}
    /\ inflight = <<>>
    /\ value = Prim(Undef)
    /\ result = NotRun
    /\ PagesClosed

\* page.tsx: the summary cards and the profit column of the table
RenderInventory ==
    /\ shown = NotRun
    /\ shown' = [page |-> "inventory",
                 summary |-> calculateSummary(records),
                 profit |-> [i \in DOMAIN records |-> calculateProfit(records[i])]]
    /\ UNCHANGED <<records, zone, db, file, inflight, value, result, pageVars>>

\* cashflow/page.tsx: the useMemo values of a render
RenderCashflow ==
    /\ shown = NotRun
    /\ LET filtered == filteredTransactions(records, range, now, zone) IN
       shown' = [page |-> "cashflow",
                 transactions |-> filtered,
                 totals |-> calculateTotals(filtered),
                 monthlyCashflow |-> buildCashflow(filtered, "month", zone),
                 yearlyCashflow |-> buildCashflow(filtered, "year", zone),
                 categoryBreakdown |-> buildCategoryBreakdown(filtered)]
    /\ UNCHANGED <<records, zone, db, file, inflight, value, result, pageVars>>

NextAggregate == RenderInventory \/ RenderCashflow

SpecAggregate == InitAggregate /\ [][NextAggregate]_vars

(***************************************************************************)
(* The CSV functions on their own: a record list is serialized as the      *)
(* export does, and the text is read back as the import does.              *)
(***************************************************************************)
CsvItems ==
    {Sample1, Sample2, Sample4, ExpenseRow,
     \* a name with the delimiter, with a quote character
     [Sample1 EXCEPT !.name = "ThinkPad X1, Carbon"],
     [Sample4 EXCEPT !.name = "Dell 24\" monitor", !.memo = " "],
     \* a memo of two lines, ended by a newline or by return and newline
     [Sample4 EXCEPT !.memo = "SSD 256GB\nno charger"],
     [Sample4 EXCEPT !.memo = "SSD 256GB\r\nno charger"],
     \* a memo with a carriage return alone
     [Sample4 EXCEPT !.memo = "8GB RAM\rno charger"]}

InitCsv ==
    /\ records \in ListsOf(CsvItems, MaxRecords)
    /\ zone = 0
    /\ shown = NotRun
    /\ db = {}
    /\ file = {}
    /\ inflight = <<>>
    /\ value = Prim(Undef)
    /\ result = NotRun
    /\ home = HomeState
    /\ calls = <<>>
    /\ storage = Null
    /\ range = AllDates
    /\ now = [year |-> 2025, month |-> 2]
    /\ text = NoFile
    /\ sent = 0

\* handleExportCsv: const csv = serializeCsv(items)
Serialize ==
    /\ ~text.written
    /\ text' = [written |-> TRUE, chars |-> serializeCsv(records)]
    /\ UNCHANGED <<db, file, inflight, value, result, records, zone, shown,
                   home, calls, storage, range, now, sent>>

\* handleImportCsv: const imported = rowsToItems(parseCsv(text))
Reimport ==
    /\ text.written
    /\ shown = NotRun
    /\ shown' = [page |-> "import", imported |-> rowsToItems(parseCsv(text.chars))]
    /\ UNCHANGED <<db, file, inflight, value, result, records, zone, pageVars>>

NextCsv == Serialize \/ Reimport

SpecCsv == InitCsv /\ [][NextCsv]_vars

(***************************************************************************)
(* The cashflow page with its date presets: the user picks a preset and,   *)
(* for the custom one, a start and an end date; the page renders again.    *)
(***************************************************************************)
RangedItems ==
    {Sample1, Sample2, ExpenseRow,
     [ExpenseRow EXCEPT !.consumableExpense = 0, !.category = "parts",
         !.purchaseDate = "2025-01-01"],
     [Sample1 EXCEPT !.purchaseDate = "not-a-date"],
     [Sample2 EXCEPT !.purchaseDate = "2024-12-31"]}
Presets == {"all", "this-month", "this-year", "custom"}
StartDates == {"2025-01-10"}
EndDates == {"2025-01-18"}
Clocks == {[year |-> 2025, month |-> 1], [year |-> 2025, month |-> 2]}

InitCashflow ==
    /\ records \in ListsOf(RangedItems, MaxRecords)
    /\ zone \in Zones
    /\ now \in Clocks
    /\ range = AllDates
    /\ shown = NotRun
    /\ db = {}
    /\ file = {}
    /\ inflight = <<>>
    /\ value = Prim(Undef)
    /\ result = NotRun
    /\ home = HomeState
    /\ calls = <<>>
    /\ storage = Null
    /\ text = NoFile
    /\ sent = 0

\* setPreset, setStartDate, setEndDate: the memoized values are computed
\* again by the next render
Pick(picked) ==
    /\ range' = picked
    /\ shown' = NotRun
    /\ UNCHANGED <<db, file, inflight, value, result, records, zone, home, calls,
                   storage, now, text, sent>>
SetPreset(preset) == preset # range.preset /\ Pick([range EXCEPT !.preset = preset])
SetStartDate(date) == date # range.startDate /\ Pick([range EXCEPT !.startDate = date])
SetEndDate(date) == date # range.endDate /\ Pick([range EXCEPT !.endDate = date])

NextCashflow ==
    \/ \E preset \in Presets : SetPreset(preset)
    \/ \E date \in StartDates \cup {""} : SetStartDate(date)
    \/ \E date \in EndDates \cup {""} : SetEndDate(date)
    \/ RenderCashflow

SpecCashflow == InitCashflow /\ [][NextCashflow]_vars

(***************************************************************************)
(* The server: a fresh database, requests arriving and being served.       *)
(***************************************************************************)
Init ==
    /\ db = {}
    /\ file = {}
    /\ inflight = [s \in Slots |-> Idle]
    /\ value = Prim(Undef)
    /\ result = NotRun
    /\ records = <<>>
    /\ zone = 0
    /\ shown = NotRun
    /\ PagesClosed

Next ==
    \E s \in Slots :
        \/ \E body \in PostBodies : PostItem(s, body)
        \/ \E id \in Ids, body \in PutBodies : PutItem(s, id, body)
        \/ \E id \in Ids : DeleteItemRequest(s, id)
        \/ GetItems(s)
        \/ \E body \in ImportBodies : ImportItems(s, body)
        \/ UpsertStep(s)
        \/ DeleteStep(s)
        \/ GetStep(s)
        \/ ReplaceStep(s)
        \/ InsertManyStep(s)
        \/ Respond(s)

Spec == Init /\ [][Next]_vars

\* the server on a disk that may refuse a write
NextFault ==
    \/ Next
    \/ \E s \in Slots :
          \/ UpsertFault(s)
          \/ DeleteFault(s)
          \/ ReplaceFault(s)
          \/ InsertManyFault(s)

SpecFault == Init /\ [][NextFault]_vars

(***************************************************************************)
(* page.tsx: the inventory page (Home) and its form (ItemModal). The page  *)
(* holds `items` (records) and home; a handler that awaits a fetch is a    *)
(* call: it keeps the `items` of the render it was created in, and runs on *)
(* when the response is there. The server handles the request of a call in *)
(* one step (its store functions do not interleave).                       *)
(***************************************************************************)
Calls == 1..MaxCalls

NoCall ==
    [pc |-> "idle", kind |-> "", items |-> <<>>, id |-> "", item |-> Null,
     mode |-> "", ok |-> FALSE, rejected |-> FALSE, saved |-> Null, list |-> <<>>]

\* the messages of setImportError
SaveFailed == Str("hozon ni shippai shimashita")
DeleteFailed == Str("sakujo ni shippai shimashita")
ImportFailed == Str("CSV no yomikomi ni shippai shimashita")
NothingToImport == Str("yomikomeru data ga arimasen deshita")

\* new Date().toISOString() and its date part, Date.now().toString()
NowIso == "2025-02-01T09:30:00.000Z"
Today == "2025-02-01"
NewIds == {"3"}

\* ItemModal: the formData of useState for the item being edited; the
\* sellingPrice of the form is the text of its input
FormOf(item) ==
    [recordType |-> item.recordType, name |-> item.name, category |-> item.category,
     purchasePrice |-> item.purchasePrice,
     purchaseDate |-> IF item.purchaseDate # "" THEN item.purchaseDate ELSE Today,
     miscExpense |-> item.miscExpense,
     consumableExpense |-> item.consumableExpense,
     sellingPrice |-> IF Truthy(item.sellingPrice)
                      THEN Decimal(item.sellingPrice.n) ELSE <<>>,
     soldDate |-> IF Truthy(item.soldDate) THEN item.soldDate.s ELSE "",
     status |-> item.status, memo |-> item.memo]

\* ItemModal: the formData of useState when no item is edited
EmptyForm ==
    [recordType |-> "item", name |-> "", category |-> "sonota", purchasePrice |-> 0,
     purchaseDate |-> Today, miscExpense |-> 0, consumableExpense |-> 0,
     sellingPrice |-> <<>>, soldDate |-> "", status |-> "zaiko", memo |-> ""]

\* ItemModal.handleSubmit: what onSave is called with
handleSubmit(formData) ==
    [formData EXCEPT
        !.sellingPrice = IF formData.sellingPrice # <<>>
                         THEN Number(formData.sellingPrice) ELSE Null,
        !.soldDate = IF formData.soldDate # "" THEN Str(formData.soldDate) ELSE Null,
        !.status = IF formData.recordType = "expense" THEN "hanbaizumi"
                   ELSE formData.status]

\* a ?? b for a value that is Null or set
Coalesce(a, b) == IF a = Null \/ a = Undef THEN b ELSE a

\* handleSaveItem: `updated`, the body of the PUT
UpdatedItem(editingItem, formData) ==
    LET isExpense == formData.recordType = "expense" IN
    [id |-> editingItem.id, recordType |-> formData.recordType,
     name |-> formData.name, category |-> formData.category,
     purchasePrice |-> IF isExpense THEN 0 ELSE formData.purchasePrice,
     purchaseDate |-> formData.purchaseDate,
     miscExpense |-> formData.miscExpense,
     consumableExpense |-> formData.consumableExpense,
     sellingPrice |-> IF isExpense THEN Null
                      ELSE Coalesce(formData.sellingPrice, editingItem.sellingPrice),
     soldDate |-> IF isExpense THEN Null
                  ELSE Coalesce(formData.soldDate, editingItem.soldDate),
     status |-> IF isExpense THEN "hanbaizumi" ELSE formData.status,
     memo |-> formData.memo, createdAt |-> editingItem.createdAt]

\* handleSaveItem: `newItem`, the body of the POST
NewItem(formData, id) ==
    LET isExpense == formData.recordType = "expense" IN
    [id |-> id, recordType |-> formData.recordType,
     name |-> formData.name,
     category |-> IF formData.category # "" THEN formData.category ELSE "sonota",
     purchasePrice |-> IF isExpense THEN 0 ELSE OrZero(formData.purchasePrice),
     purchaseDate |-> IF formData.purchaseDate # "" THEN formData.purchaseDate ELSE Today,
     miscExpense |-> OrZero(formData.miscExpense),
     consumableExpense |-> OrZero(formData.consumableExpense),
     sellingPrice |-> IF ~isExpense /\ Truthy(formData.sellingPrice)
                      THEN formData.sellingPrice ELSE Null,
     soldDate |-> IF ~isExpense /\ Truthy(formData.soldDate)
                  THEN formData.soldDate ELSE Null,
     status |-> IF isExpense THEN "hanbaizumi"
                ELSE IF formData.status # "" THEN formData.status ELSE "zaiko",
     memo |-> formData.memo, createdAt |-> NowIso]

\* JSON.stringify(item) as req.json() reads it
ToJson(item) ==
    Object([id |-> Str(item.id), recordType |-> Str(item.recordType),
            name |-> Str(item.name), category |-> Str(item.category),
            purchasePrice |-> Num(item.purchasePrice),
            purchaseDate |-> Str(item.purchaseDate),
            miscExpense |-> Num(item.miscExpense),
            consumableExpense |-> Num(item.consumableExpense),
            sellingPrice |-> item.sellingPrice, soldDate |-> item.soldDate,
            status |-> Str(item.status), memo |-> Str(item.memo),
            createdAt |-> Str(item.createdAt)])

\* what the user may have made of the form when submitting it: left as it
\* opened, the sale cleared, a sale entered, the record type switched
FormsOf(opened) ==
    {opened,
     [opened EXCEPT !.sellingPrice = <<>>, !.soldDate = ""],
     [opened EXCEPT !.sellingPrice = Decimal(900), !.soldDate = "2025-01-22",
                    !.status = "hanbaizumi"],
     [opened EXCEPT !.recordType = "expense"]}

\* the files the user may pick for an import: an export of one sold record,
\* and an export of no record
ImportFiles == {serializeCsv(<<Sample4>>), serializeCsv(<<>>)}

Used(id) ==
    \/ \E r \in db : r.id = id
    \/ \E i \in DOMAIN records : records[i].id = id
    \/ \E c \in Calls :
          \/ calls[c].id = id
          \/ \E i \in DOMAIN calls[c].items : calls[c].items[i].id = id

\* the button "+ add"
OpenCreate ==
    /\ ~home.isModalOpen
    /\ home' = [home EXCEPT !.editingItem = Null, !.isModalOpen = TRUE]
    /\ UNCHANGED <<db, file, inflight, value, result, records, zone, shown, calls,
                   storage, range, now, text, sent>>

\* the button "edit" of a row
OpenEdit(i) ==
    /\ ~home.isModalOpen
    /\ home' = [home EXCEPT !.editingItem = records[i], !.isModalOpen = TRUE]
    /\ UNCHANGED <<db, file, inflight, value, result, records, zone, shown, calls,
                   storage, range, now, text, sent>>

\* onClose: the button "close" in the title of the dialog (the button
\* "cancel" is disabled while isSaving)
CloseModal ==
    /\ home.isModalOpen
    /\ home' = [home EXCEPT !.isModalOpen = FALSE, !.editingItem = Null]
    /\ UNCHANGED <<db, file, inflight, value, result, records, zone, shown, calls,
                   storage, range, now, text, sent>>

\* handleSubmit and handleSaveItem up to `await fetch(...)`; the submit
\* button is disabled while isSaving
handleSaveItem(c, formData) ==
    /\ home.isModalOpen
    /\ ~home.isSaving
    /\ calls[c].pc = "idle"
    /\ sent < MaxRequests
    /\ sent' = sent + 1
    /\ LET submitted == handleSubmit(formData) IN
       IF home.editingItem # Null
       THEN calls' = [calls EXCEPT ![c] =
                [NoCall EXCEPT !.pc = "sent", !.kind = "edit", !.items = records,
                               !.id = home.editingItem.id,
                               !.item = UpdatedItem(home.editingItem, submitted)]]
       ELSE \E id \in NewIds :
                /\ ~Used(id)
                /\ calls' = [calls EXCEPT ![c] =
                      [NoCall EXCEPT !.pc = "sent", !.kind = "create",
                                     !.items = records, !.id = id,
                                     !.item = NewItem(submitted, id)]]
    /\ home' = [home EXCEPT !.isSaving = TRUE]
    /\ UNCHANGED <<db, file, inflight, value, result, records, zone, shown,
                   storage, range, now, text>>

\* handleDeleteItem, the confirm accepted, up to the fetch
handleDeleteItem(c, i) ==
    /\ ~home.isModalOpen
    /\ calls[c].pc = "idle"
    /\ sent < MaxRequests
    /\ sent' = sent + 1
    /\ calls' = [calls EXCEPT ![c] =
          [NoCall EXCEPT !.pc = "sent", !.kind = "delete", !.items = records,
                         !.id = records[i].id]]
    /\ UNCHANGED <<db, file, inflight, value, result, records, zone, shown, home,
                   storage, range, now, text>>

\* handleImportCsv up to `await fetch("/api/items/import", ...)`
handleImportCsv(c, chars, mode) ==
    /\ ~home.isModalOpen
    /\ calls[c].pc = "idle"
    /\ sent < MaxRequests
    /\ LET imported == rowsToItems(parseCsv(chars)) IN
       IF Len(imported) = 0
       THEN /\ home' = [home EXCEPT !.importError = NothingToImport]
            /\ UNCHANGED <<calls, sent>>
       ELSE /\ home' = [home EXCEPT !.importError = Null]
            /\ sent' = sent + 1
            /\ calls' = [calls EXCEPT ![c] =
                  [NoCall EXCEPT !.pc = "sent", !.kind = "import", !.items = records,
                                 !.mode = mode, !.list = imported]]
    /\ UNCHANGED <<db, file, inflight, value, result, records, zone, shown,
                   storage, range, now, text>>

\* the route handler of the request of call c, from the request to the
\* response (400 for a body that normalizeItem rejects, 500 when the store
\* threw); written: fs.writeFileSync went through
Serving(c, written) ==
    /\ calls[c].pc = "sent"
    /\ LET call == calls[c]
           normalized ==
               IF call.kind = "edit" THEN normalizeItem(WithId(ToJson(call.item), call.id))
               ELSE IF call.kind = "create" THEN normalizeItem(ToJson(call.item))
               ELSE Null
           batch == Normalized([i \in DOMAIN call.list |-> ToJson(call.list[i])])
           out == IF call.kind \in {"edit", "create"} /\ ~IsItem(normalized)
                  THEN [db |-> db, file |-> file, threw |-> TRUE]
                  ELSE IF call.kind \in {"edit", "create"}
                  THEN upsertItem(db, file, normalized, written)
                  ELSE IF call.kind = "delete"
                  THEN deleteItem(db, file, call.id, written)
                  ELSE IF call.kind = "import" /\ call.mode = "replace"
                  THEN replaceAllItems(db, file, batch, written)
                  ELSE IF call.kind = "import"
                  THEN insertMany(db, file, batch, written)
                  ELSE [db |-> db, file |-> file, threw |-> FALSE]
       IN  /\ db' = out.db
           /\ file' = out.file
           /\ IF call.kind = "list"
              THEN \E list \in getAllItems(db) :
                      calls' = [calls EXCEPT ![c].pc = "answered", ![c].ok = TRUE,
                                             ![c].list = list]
              ELSE calls' = [calls EXCEPT ![c].pc = "answered", ![c].ok = ~out.threw,
                                          ![c].saved = IF out.threw THEN Null
                                                       ELSE normalized]
    /\ UNCHANGED <<inflight, value, result, records, zone, shown, home,
                   storage, range, now, text, sent>>

Serve(c) == Serving(c, TRUE)

\* the request is answered 500: writeFileSync threw in persistDb
ServeFault(c) ==
    /\ calls[c].kind \in {"edit", "create", "delete", "import"}
    /\ Serving(c, FALSE)

\* the fetch rejects: the request did not reach the server
Reject(c) ==
    /\ calls[c].pc = "sent"
    /\ calls' = [calls EXCEPT ![c].pc = "answered", ![c].rejected = TRUE]
    /\ UNCHANGED <<db, file, inflight, value, result, records, zone, shown, home,
                   storage, range, now, text, sent>>

\* handleSaveItem: the catch block, and the statements after the branches
SaveRejected_stillSaving(state) == [state EXCEPT !.importError = SaveFailed]
SaveRejected(state) == [state EXCEPT !.importError = SaveFailed, !.isSaving = FALSE]
SaveDone(state) ==
    [state EXCEPT !.isModalOpen = FALSE, !.editingItem = Null, !.isSaving = FALSE]

\* the handler of call c from its `await fetch(...)` on
Resume(c) ==
    /\ calls[c].pc = "answered"
    /\ LET call == calls[c]
           failed == call.rejected \/ ~call.ok
           Other(item) == item.id # call.id
       IN
       CASE call.kind \in {"edit", "create"} ->
              /\ calls' = [calls EXCEPT ![c] = NoCall]
              /\ IF failed
                 THEN /\ home' = SaveRejected(home)
                      /\ UNCHANGED records
                 ELSE /\ records' =
                            IF call.kind = "edit"
                            THEN [i \in DOMAIN call.items |->
                                    IF call.items[i].id = call.saved.id
                                    THEN call.saved ELSE call.items[i]]
                            ELSE <<call.saved>> \o call.items
                      /\ home' = SaveDone(home)
         [] call.kind = "delete" ->
              /\ calls' = [calls EXCEPT ![c] = NoCall]
              /\ IF call.rejected
                 THEN /\ home' = [home EXCEPT !.importError = DeleteFailed]
                      /\ UNCHANGED records
                 ELSE /\ records' = SelectSeq(call.items, Other)
                      /\ UNCHANGED home
         [] call.kind = "import" ->
              IF failed
              THEN /\ calls' = [calls EXCEPT ![c] = NoCall]
                   /\ home' = [home EXCEPT !.importError = ImportFailed]
                   /\ UNCHANGED records
              ELSE /\ calls' = [calls EXCEPT ![c] =
                         [NoCall EXCEPT !.pc = "sent", !.kind = "list",
                                        !.items = call.items]]
                   /\ UNCHANGED <<home, records>>
         [] call.kind = "list" ->
              /\ calls' = [calls EXCEPT ![c] = NoCall]
              /\ IF call.rejected
                 THEN /\ home' = [home EXCEPT !.importError = ImportFailed]
                      /\ UNCHANGED records
                 ELSE /\ records' = call.list
                      /\ UNCHANGED home
    /\ UNCHANGED <<db, file, inflight, value, result, zone, shown,
                   storage, range, now, text, sent>>

\* lib/inventory-storage.ts loadItemsFromStorage: null when the entry is
\* absent, the entry's rows that normalizeItem accepts otherwise
loadItemsFromStorage(entry) ==
    IF entry = Null THEN Null ELSE Normalized(entry.rows)

\* CashflowPage mounts: items = loadItemsFromStorage() ?? sampleItems, and
\* the page renders them
LoadCashflow ==
    /\ shown = NotRun
    /\ LET storedItems == loadItemsFromStorage(storage)
           items == IF storedItems = Null THEN sampleItems ELSE storedItems
           filtered == filteredTransactions(items, range, now, zone)
       IN  shown' = [page |-> "cashflow",
                     items |-> items,
                     transactions |-> filtered,
                     totals |-> calculateTotals(filtered),
                     monthlyCashflow |-> buildCashflow(filtered, "month", zone),
                     yearlyCashflow |-> buildCashflow(filtered, "year", zone),
                     categoryBreakdown |-> buildCategoryBreakdown(filtered)]
    /\ UNCHANGED <<records, zone, db, file, inflight, value, result, pageVars>>

\* the store holds two records and the inventory page has loaded them
\* (useEffect: GET /api/items, setItems(data))
InitView ==
    /\ db = {BindRow(Sample1), BindRow(Sample2)}
    /\ file = db
    /\ records \in getAllItems(db)
    /\ home = HomeState
    /\ calls = [c \in Calls |-> NoCall]
    /\ storage = Null
    /\ range = AllDates
    /\ now = [year |-> 2025, month |-> 2]
    /\ text = NoFile
    /\ sent = 0
    /\ zone = 540
    /\ shown = NotRun
    /\ inflight = <<>>
    /\ value = Prim(Undef)
    /\ result = NotRun

NextView ==
    \/ OpenCreate
    \/ \E i \in DOMAIN records : OpenEdit(i)
    \/ CloseModal
    \/ \E c \in Calls :
          \/ \E formData \in FormsOf(IF home.editingItem # Null
                                     THEN FormOf(home.editingItem)
                                     ELSE [EmptyForm EXCEPT !.name = "USB-C hub"]) :
                handleSaveItem(c, formData)
          \/ \E i \in DOMAIN records : handleDeleteItem(c, i)
          \/ \E chars \in ImportFiles, mode \in {"replace", "merge"} :
                handleImportCsv(c, chars, mode)
          \/ Serve(c)
          \/ Resume(c)
    \/ LoadCashflow

\* every request reaches the server and the disk accepts every write
SpecView == InitView /\ [][NextView]_vars

NextViewFault ==
    \/ NextView
    \/ \E c \in Calls : ServeFault(c) \/ Reject(c)

\* a request may be answered 500 or not reach the server; a request in
\* flight is settled and a settled handler runs on
SpecViewFault ==
    /\ InitView
    /\ [][NextViewFault]_vars
    /\ \A c \in Calls :
          /\ WF_vars(Reject(c) \/ Serve(c) \/ ServeFault(c))
          /\ WF_vars(Resume(c))

(***************************************************************************)
(* Claims about the Normalizer (SpecNormalize).                            *)
(***************************************************************************)
KindOf(v, field) == IF field \in DOMAIN v.f THEN v.f[field].k ELSE "undefined"

HasRequired(v) ==
    /\ v.k \in {"object", "array"}
    /\ KindOf(v, "id") = "string"
    /\ KindOf(v, "name") = "string"
    /\ KindOf(v, "purchasePrice") = "number"
    /\ KindOf(v, "purchaseDate") = "string"
    /\ KindOf(v, "createdAt") = "string"

\* C8: normalizeItem never throws; it returns null exactly when the input is
\* not an object or one of id, name, purchaseDate, createdAt (strings) and
\* purchasePrice (number) is absent or of another type, and otherwise a
\* record whose five required fields are the input's.
C8_NormalizeTotal ==
    result # NotRun =>
        /\ result # TypeError
        /\ (result = Null) <=> ~HasRequired(value)
        /\ result # Null =>
              /\ IsItem(result)
              /\ result.id = value.f.id.s
              /\ result.name = value.f.name.s
              /\ result.purchasePrice = value.f.purchasePrice.n
              /\ result.purchaseDate = value.f.purchaseDate.s
              /\ result.createdAt = value.f.createdAt.s

\* C8: an object whose only defect is a createdAt that is no string is
\* rejected
C8_Witness ==
    /\ result = Null
    /\ value.k = "object"
    /\ value.f.createdAt = Bool(TRUE)
    /\ [value.f EXCEPT !.createdAt = Record1.createdAt] = Record1

\* C9: in an accepted input every optional field is defaulted on its own.
C9_OptionalDefaults ==
    (result # NotRun /\ IsItem(result)) =>
        LET in == value.f IN
        /\ result.category =
              IF in.category.k = "string" /\
                 in.category.s \in {"PC-hontai", "parts", "shuhenkiki", "sonota"}
              THEN in.category.s ELSE "sonota"
        /\ result.status =
              IF in.status.k = "string" /\ in.status.s \in {"zaiko", "hanbaizumi"}
              THEN in.status.s ELSE "zaiko"
        /\ result.recordType =
              IF in.recordType.k = "string" /\ in.recordType.s \in {"item", "expense"}
              THEN in.recordType.s ELSE "item"
        /\ result.sellingPrice =
              IF in.sellingPrice.k = "number" THEN in.sellingPrice ELSE Null
        /\ result.soldDate =
              IF in.soldDate.k = "string" THEN in.soldDate ELSE Null
        /\ result.miscExpense =
              IF in.miscExpense.k = "number" THEN in.miscExpense.n ELSE 0
        /\ result.consumableExpense =
              IF in.consumableExpense.k = "number" THEN in.consumableExpense.n ELSE 0
        /\ result.memo = IF in.memo.k = "string" THEN in.memo.s ELSE ""

\* C9: an input with an unknown status and a category that is no string is
\* accepted, with both defaulted
C9_Witness ==
    /\ IsItem(result)
    /\ value.f.status = Str("sold")
    /\ value.f.category = Num(1)
    /\ result.status = "zaiko"
    /\ result.category = "sonota"

\* C10: for an accepted input with recordType expense the Normalizer passes
\* purchasePrice, sellingPrice, soldDate and status through as the input
\* carries them.
C10_ExpensePassThrough ==
    (result # NotRun /\ IsItem(result) /\ value.f.recordType = Str("expense")) =>
        /\ result.recordType = "expense"
        /\ result.purchasePrice = value.f.purchasePrice.n
        /\ value.f.sellingPrice.k = "number" =>
              result.sellingPrice = value.f.sellingPrice
        /\ value.f.soldDate.k = "string" => result.soldDate = value.f.soldDate
        /\ value.f.status \in {Str("zaiko"), Str("hanbaizumi")} =>
              result.status = value.f.status.s

\* C10: an expense with a price, a selling price, a sold date and the
\* in-stock status comes out with all four
C10_Witness ==
    /\ IsItem(result)
    /\ result.recordType = "expense"
    /\ result.purchasePrice = 700
    /\ result.sellingPrice = Num(900)
    /\ result.soldDate = Str("2025-01-18")
    /\ result.status = "zaiko"

(***************************************************************************)
(* Claims about the Item Store and its routes (Spec).                      *)
(***************************************************************************)
IsUpsert(req) == req.route \in {"POST /api/items", "PUT /api/items/[id]"}
IsImport(req) == req.route = "POST /api/items/import"
ItemOf(props) == normalizeItem(Object(props))
RowsWithId(rows, id) == {r \in rows : r.id = id}

UniqueIds == \A r1, r2 \in db : r1.id = r2.id => r1 = r2

UpsertEffect ==
    \A s \in Slots : UpsertStep(s) =>
        LET item == inflight[s].item IN
        /\ RowsWithId(db', item.id) = {BindRow(item)}
        /\ \A r \in db' : r.id = item.id => mapRow(r) = item
        /\ Cardinality(db') =
              IF HasId(db, item.id) THEN Cardinality(db) ELSE Cardinality(db) + 1

\* C1: the store never holds two records of one id; an upsert of an id that
\* is stored overwrites every field of its record and keeps the number of
\* records, an upsert of a new id adds exactly one record.
C1_UpsertById == [](UniqueIds) /\ [][UpsertEffect]_vars

\* C1: Record2Sold was stored under id 2 and then overwritten by Record2
C1_Witness ==
    \E s, t \in Slots :
        /\ inflight[s] = Response("POST /api/items", "", "", ItemOf(Record2Sold), <<>>, 200, "")
        /\ inflight[t] = Response("POST /api/items", "", "", ItemOf(Record2), <<>>, 200, "")
        /\ db = {BindRow(ItemOf(Record2))}

\* C2: replace-all is atomic: after replaceAllItems(B) the store holds exactly
\* the records of B or, if the operation failed, exactly the records it held
\* before.
C2_ReplaceAllAtomic ==
    [][\A s \in Slots : ReplaceStep(s) =>
          LET B == inflight[s].items IN
          \/ /\ inflight'[s].status = 200
             /\ db' = {BindRow(B[i]) : i \in DOMAIN B}
          \/ /\ inflight'[s].status # 200
             /\ db' = db]_vars

LastOf(items, id) ==
    items[CHOOSE i \in DOMAIN items :
            /\ items[i].id = id
            /\ \A j \in DOMAIN items : items[j].id = id => j <= i]

\* C3: in either mode each imported row is applied as insert-or-overwrite by
\* id: the import succeeds also when two rows share an id (the later row
\* wins); every id of the batch ends up holding the batch's row, and in mode
\* merge every stored record of another id is left as it was.
C3_ImportRowsUpsert ==
    [][\A s \in Slots : (ReplaceStep(s) \/ InsertManyStep(s)) =>
          LET B == inflight[s].items IN
          /\ inflight'[s].status = 200
          /\ \A i \in DOMAIN B :
                RowsWithId(db', B[i].id) = {BindRow(LastOf(B, B[i].id))}
          /\ inflight[s].mode = "merge" =>
                \A r \in db : (\A i \in DOMAIN B : B[i].id # r.id) => r \in db']_vars

\* the payloads with no record that the Normalizer accepts: items missing or
\* no list, an empty list, every row malformed
NoneAccepted ==
    {body \in ImportBodies :
        ~body.isArray \/ \A i \in DOMAIN body.items : normalizeItem(body.items[i]) = Null}

\* C4: an import whose batch holds no record the Normalizer accepts is
\* answered 400 "No valid items", in both modes, and no step of the request
\* changes the store.
C4_NoValidItemsRejected ==
    /\ [][\A s \in Slots :
            (inflight[s].pc = "idle" /\ IsImport(inflight'[s])) =>
                \A body \in NoneAccepted :
                    ImportItems(s, body) =>
                        /\ inflight'[s].pc = "respond"
                        /\ inflight'[s].status = 400
                        /\ inflight'[s].error = "No valid items"
                        /\ db' = db
                        /\ file' = file]_vars
    /\ [][\A s \in Slots :
            (IsImport(inflight[s]) /\ inflight[s].items = <<>> /\
             inflight'[s] # inflight[s]) => (db' = db /\ file' = file)]_vars

\* C4: a replace import rejected while the store holds a record
C4_Witness ==
    \E s \in Slots :
        /\ inflight[s] = Response("POST /api/items/import", "replace", "", Null,
                                  <<>>, 400, "No valid items")
        /\ db = {BindRow(ItemOf(Record1))}

\* what the store function a request awaits makes of the table, run alone
SerialEffect(req, rows, image) ==
    CASE IsUpsert(req) -> upsertItem(rows, image, req.item, TRUE).db
      [] req.route = "DELETE /api/items/[id]" -> deleteItem(rows, image, req.id, TRUE).db
      [] IsImport(req) /\ req.mode = "replace" ->
            replaceAllItems(rows, image, req.items, TRUE).db
      [] IsImport(req) /\ req.mode = "merge" -> insertMany(rows, image, req.items, TRUE).db
      [] OTHER -> rows

\* C5: store operations never interleave: every change of the table is the
\* whole effect of one started operation, the others left where they were;
\* an upsert that follows another request's upsert of the same id leaves
\* exactly its own record (last write wins, no mixture of fields).
C5_OperationsSerial ==
    /\ [][db' # db =>
            \E s \in Slots :
                /\ inflight[s].pc = "db"
                /\ inflight'[s].pc = "respond"
                /\ \A t \in Slots \ {s} : inflight'[t] = inflight[t]
                /\ db' = SerialEffect(inflight[s], db, file)]_vars
    /\ [][\A s, t \in Slots :
            (/\ s # t
             /\ IsUpsert(inflight[t])
             /\ inflight[t].pc = "respond"
             /\ inflight[t].status = 200
             /\ UpsertStep(s)
             /\ inflight[s].item.id = inflight[t].item.id) =>
                /\ \A r \in RowsWithId(db', inflight[s].item.id) :
                      mapRow(r) \in {inflight[s].item, inflight[t].item}
                /\ RowsWithId(db', inflight[s].item.id) = {BindRow(inflight[s].item)}]_vars

\* C5: two requests in flight together upserted Record1 and Expense1 under
\* id 1; the store holds the record of the one that ran last
C5_Witness ==
    \E s, t \in Slots :
        /\ inflight[s] = Response("POST /api/items", "", "", ItemOf(Record1), <<>>, 200, "")
        /\ inflight[t] = Response("POST /api/items", "", "", ItemOf(Expense1), <<>>, 200, "")
        /\ RowsWithId(db, "1") = {BindRow(ItemOf(Expense1))}

\* C6: delete-by-id removes the record of the id and no other, answers ok
\* also when the id is not stored (the store is then unchanged), and an
\* upsert of an id that is not stored (deleted before, say) creates its record.
C6_DeleteById ==
    /\ [][\A s \in Slots : DeleteStep(s) =>
            /\ db' = {r \in db : r.id # inflight[s].id}
            /\ ~(\E r \in db : r.id = inflight[s].id) => db' = db
            /\ inflight'[s].status = 200]_vars
    /\ [][\A s \in Slots :
            (UpsertStep(s) /\ ~(\E r \in db : r.id = inflight[s].item.id)) =>
                db' = db \cup {BindRow(inflight[s].item)}]_vars

\* C6: id 1 was deleted and then upserted while id 2 stayed stored
C6_Witness ==
    \E s, t \in Slots :
        /\ inflight[s] = Response("DELETE /api/items/[id]", "", "1", Null, <<>>, 200, "")
        /\ inflight[t] = Response("PUT /api/items/[id]", "", "1", ItemOf(Record1), <<>>, 200, "")
        /\ db = {BindRow(ItemOf(Record1)), BindRow(ItemOf(Record2))}

FetchAllReturns(s, list) ==
    /\ inflight'[s].status = 200
    /\ list = inflight'[s].items
    /\ Len(list) = Cardinality(db)
    /\ {list[i] : i \in DOMAIN list} = {mapRow(r) : r \in db}
    /\ db' = db
    /\ file' = file

\* C7 as stated: fetch-all returns every stored record exactly once, changes
\* nothing, and orders the records by creation time descending: of two
\* adjacent results the first was created no earlier than the second.
C7_OrderedByCreationTime ==
    [][\A s \in Slots : GetStep(s) =>
          \E list \in {inflight'[s].items} :
              /\ FetchAllReturns(s, list)
              /\ \A i \in 1..(Len(list) - 1) :
                    NoEarlier(DateParse(list[i].createdAt),
                              DateParse(list[i + 1].createdAt))]_vars

\* C7 amended: fetch-all returns every stored record exactly once, changes
\* nothing, and orders the records by their createdAt text descending, byte
\* by byte: of two adjacent results the second's createdAt is not greater.
C7_OrderedByCreatedAtText ==
    [][\A s \in Slots : GetStep(s) =>
          \E list \in {inflight'[s].items} :
              /\ FetchAllReturns(s, list)
              /\ \A i \in 1..(Len(list) - 1) :
                    ~BytesLess(Utf8(list[i].createdAt), Utf8(list[i + 1].createdAt))]_vars

\* C7: Record1 ("...T10:00:00Z") is listed before Record2, created half a
\* second later ("...T10:00:00.500Z")
C7_Witness ==
    \E s \in Slots :
        /\ inflight[s].route = "GET /api/items"
        /\ inflight[s].pc = "respond"
        /\ inflight[s].items = <<ItemOf(Record1), ItemOf(Record2)>>

(***************************************************************************)
(* The record invariants of the data model, over the stored rows.          *)
(***************************************************************************)
\* C11: every stored record of recordType expense has purchasePrice 0, no
\* sellingPrice, no soldDate and status sold, whichever route wrote it.
C11_ExpenseInvariant ==
    \A r \in db :
        mapRow(r).recordType = "expense" =>
            /\ mapRow(r).purchasePrice = 0
            /\ mapRow(r).sellingPrice = Null
            /\ mapRow(r).soldDate = Null
            /\ mapRow(r).status = "hanbaizumi"

\* C12: every stored record has sellingPrice and soldDate both present or
\* both null.
C12_SalePairing ==
    \A r \in db :
        (mapRow(r).sellingPrice = Null) <=> (mapRow(r).soldDate = Null)

(***************************************************************************)
(* Claims about the Aggregator (SpecAggregate).                            *)
(***************************************************************************)
Rendered(page) == "page" \in DOMAIN shown /\ shown.page = page

\* the sum of amount[x] over the members x of a finite set
SumOver(set, amount) ==
    LET RECURSIVE Go(_)
        Go(rest) ==
            IF rest = {} THEN 0
            ELSE LET x == CHOOSE y \in rest : TRUE
                 IN  amount[x] + Go(rest \ {x})
    IN  Go(set)

\* C13: the profit of a record is sellingPrice - purchasePrice - miscExpense
\* - consumableExpense when it is an item with a sellingPrice (0 included,
\* negative results included), and null (not 0) for an expense or a record
\* with no sellingPrice.
C13_ProfitRule ==
    Rendered("inventory") =>
        \A i \in DOMAIN records :
            LET r == records[i] IN
            IF r.recordType = "item" /\ r.sellingPrice # Null
            THEN shown.profit[i] =
                    Num(r.sellingPrice.n - r.purchasePrice - r.miscExpense
                        - r.consumableExpense)
            ELSE shown.profit[i] = Null

\* C13: an item given away (sellingPrice 0) shows a negative profit next to
\* an expense that carries a sellingPrice and shows none
C13_Witness ==
    /\ Rendered("inventory")
    /\ \E i, j \in DOMAIN records :
          /\ records[i].recordType = "item"
          /\ records[i].sellingPrice = Num(0)
          /\ shown.profit[i].k = "number" /\ shown.profit[i].n < 0
          /\ records[j].recordType = "expense"
          /\ records[j].sellingPrice # Null
          /\ shown.profit[j] = Null

\* C14: an item record with only one of sellingPrice and soldDate set has no
\* profit, and the total profit is what it is without such records.
PartialSale(r) ==
    r.recordType = "item" /\ ((r.sellingPrice = Null) # (r.soldDate = Null))
C14_PartialSaleUnsold ==
    Rendered("inventory") =>
        LET Whole(r) == ~PartialSale(r) IN
        /\ \A i \in DOMAIN records :
              PartialSale(records[i]) => shown.profit[i] = Null
        /\ shown.summary.totalProfit =
              calculateSummary(SelectSeq(records, Whole)).totalProfit

\* C15: the summary counts the in-stock and the sold item records, sums the
\* profit over the sold item records and the purchasePrice over the in-stock
\* item records, and sums miscExpense and consumableExpense over all records;
\* an expense record is in neither count.
C15_SummaryRule ==
    Rendered("inventory") =>
        LET all == DOMAIN records
            stock == {i \in all : records[i].recordType = "item"
                                  /\ records[i].status = "zaiko"}
            sold == {i \in all : records[i].recordType = "item"
                                 /\ records[i].status = "hanbaizumi"}
            Profit == [i \in all |->
                          IF records[i].sellingPrice = Null THEN 0
                          ELSE records[i].sellingPrice.n - records[i].purchasePrice
                               - records[i].miscExpense - records[i].consumableExpense]
            Price == [i \in all |-> records[i].purchasePrice]
            Misc == [i \in all |-> records[i].miscExpense]
            Consumable == [i \in all |-> records[i].consumableExpense]
        IN  shown.summary =
                [totalStock |-> Cardinality(stock),
                 totalSold |-> Cardinality(sold),
                 totalProfit |-> SumOver(sold, Profit),
                 stockValue |-> SumOver(stock, Price),
                 totalMiscExpense |-> SumOver(all, Misc),
                 totalConsumableExpense |-> SumOver(all, Consumable)]

\* C15: one sold item (profit 12200), two in stock (2000 and 8000) and one
\* expense (consumableExpense 100)
C15_Witness ==
    /\ Rendered("inventory")
    /\ records = <<Sample1, Sample2, Sample3, ExpenseRow>>
    /\ shown.summary =
          [totalStock |-> 2, totalSold |-> 1, totalProfit |-> 12200,
           stockValue |-> 10000, totalMiscExpense |-> 700,
           totalConsumableExpense |-> 550]

\* C16: the cash events of a record list are, record by record: for an
\* expense one event at purchaseDate (income 0, expense miscExpense +
\* consumableExpense); for an item an outflow at purchaseDate (purchasePrice
\* + miscExpense + consumableExpense) and, exactly when sellingPrice and
\* soldDate are both non-null, an inflow at soldDate of sellingPrice; every
\* event carries the record's category.
EventsOf(r) ==
    IF r.recordType = "expense"
    THEN <<[date |-> r.purchaseDate, income |-> 0,
            expense |-> r.miscExpense + r.consumableExpense,
            category |-> r.category]>>
    ELSE <<[date |-> r.purchaseDate, income |-> 0,
            expense |-> r.purchasePrice + r.miscExpense + r.consumableExpense,
            category |-> r.category]>> \o
         (IF r.sellingPrice # Null /\ r.soldDate # Null
          THEN <<[date |-> r.soldDate.s, income |-> r.sellingPrice.n,
                  expense |-> 0, category |-> r.category]>>
          ELSE <<>>)
RECURSIVE Events(_)
Events(list) ==
    IF list = <<>> THEN <<>> ELSE EventsOf(Head(list)) \o Events(Tail(list))
C16_CashEvents ==
    Rendered("cashflow") => shown.transactions = Events(records)

\* what a bucket row says, apart from its label
Totals(rows) ==
    [i \in DOMAIN rows |->
        [key |-> rows[i].key, income |-> rows[i].income,
         expense |-> rows[i].expense, net |-> rows[i].net]]

\* the record list with two of its records exchanged; every permutation of
\* a list is reached by such exchanges, and every list is an input
Exchanged(list) ==
    {[list EXCEPT ![p[1]] = list[p[2]], ![p[2]] = list[p[1]]] :
        p \in {q \in (DOMAIN list) \X (DOMAIN list) : q[1] < q[2]}}

Parses(dateString) == NewDate(dateString).valid

\* the aggregates of the summary do not read purchaseDate
CountsInSummary ==
    Rendered("inventory") =>
        shown.summary =
            calculateSummary([i \in DOMAIN records |->
                                 [records[i] EXCEPT !.purchaseDate = "2025-01-10"]])

\* C18 as stated: a record whose purchaseDate does not parse contributes
\* nothing to any bucket and to no bucket key (the buckets are those of the
\* list without it), and still counts in the summary.
C18_UnparseableRecordAbsent ==
    /\ Rendered("cashflow") =>
          LET Dated(r) == Parses(r.purchaseDate)
              rest == collectTransactions(SelectSeq(records, Dated))
          IN  /\ shown.monthlyCashflow = buildCashflow(rest, "month", zone)
              /\ shown.yearlyCashflow = buildCashflow(rest, "year", zone)
    /\ CountsInSummary

\* C18 amended: the purchase-date event of a record whose purchaseDate does
\* not parse contributes nothing to any bucket and to no bucket key, while
\* the inflow event of a sold item is still bucketed at its soldDate; the
\* record still counts in the summary.
RECURSIVE DatedEvents(_)
DatedEvents(list) ==
    IF list = <<>> THEN <<>>
    ELSE (IF Parses(Head(list).purchaseDate) THEN TransactionsOf(Head(list))
          ELSE Tail(TransactionsOf(Head(list)))) \o DatedEvents(Tail(list))
C18_UnparseableEventDropped ==
    /\ Rendered("cashflow") =>
          /\ shown.monthlyCashflow = buildCashflow(DatedEvents(records), "month", zone)
          /\ shown.yearlyCashflow = buildCashflow(DatedEvents(records), "year", zone)
    /\ CountsInSummary

\* C18: an unsold record with an unparseable purchaseDate next to a dated
\* one: one bucket only
C18_Witness ==
    /\ Rendered("cashflow")
    /\ Len(records) = 2
    /\ ~Parses(records[1].purchaseDate) /\ Len(TransactionsOf(records[1])) = 1
    /\ Parses(records[2].purchaseDate)
    /\ Len(shown.monthlyCashflow) = 1
    /\ shown.monthlyCashflow[1].expense = shown.transactions[2].expense

\* C19: one bucket per distinct period of the (valid) event dates, net =
\* income - expense in each, most recent period first.
Periods(granularity) ==
    {BucketLabel(getFullYear(NewDate(shown.transactions[i].date), zone),
                 getMonth1(NewDate(shown.transactions[i].date), zone), granularity) :
        i \in {j \in DOMAIN shown.transactions : Parses(shown.transactions[j].date)}}
Later(a, b) == a[1] > b[1] \/ (a[1] = b[1] /\ a[2] > b[2])
OnePerPeriod(rows, granularity) ==
    /\ {rows[i].label : i \in DOMAIN rows} = Periods(granularity)
    /\ Len(rows) = Cardinality(Periods(granularity))
    /\ \A i \in DOMAIN rows : rows[i].net = rows[i].income - rows[i].expense
    /\ \A i \in 1..(Len(rows) - 1) : Later(rows[i].label, rows[i + 1].label)
C19_MostRecentFirst ==
    Rendered("cashflow") =>
        /\ OnePerPeriod(shown.monthlyCashflow, "month")
        /\ OnePerPeriod(shown.yearlyCashflow, "year")

\* C20: the category breakdown has, in the order of the category list, one
\* row for each category whose accumulated income, expense and net are not
\* all 0, with the sums of its events and net = income - expense.
C20_CategoryBreakdown ==
    Rendered("cashflow") =>
        LET rows == shown.categoryBreakdown
            events == shown.transactions
            Of(category) == {i \in DOMAIN events : events[i].category = category}
            Income == [i \in DOMAIN events |-> events[i].income]
            Expense == [i \in DOMAIN events |-> events[i].expense]
            Row(category) ==
                [category |-> category,
                 income |-> SumOver(Of(category), Income),
                 expense |-> SumOver(Of(category), Expense),
                 net |-> SumOver(Of(category), Income) - SumOver(Of(category), Expense)]
            AllZero(row) == row.income = 0 /\ row.expense = 0 /\ row.net = 0
            Position(category) ==
                CHOOSE i \in DOMAIN categories : categories[i] = category
        IN  /\ \A i \in DOMAIN rows : rows[i] = Row(rows[i].category)
            /\ \A category \in categorySet :
                  (\E i \in DOMAIN rows : rows[i].category = category)
                      <=> ~AllZero(Row(category))
            /\ \A i \in 1..(Len(rows) - 1) :
                  Position(rows[i].category) < Position(rows[i + 1].category)

\* C20: a category whose income equals its expense is kept, one whose only
\* event is all 0 is dropped
C20_Witness ==
    /\ Rendered("cashflow")
    /\ \E i \in DOMAIN shown.categoryBreakdown :
          /\ shown.categoryBreakdown[i].net = 0
          /\ shown.categoryBreakdown[i].income # 0
    /\ \E i \in DOMAIN shown.transactions :
          /\ shown.transactions[i].category = "parts"
          /\ \A j \in DOMAIN shown.categoryBreakdown :
                shown.categoryBreakdown[j].category # "parts"

(***************************************************************************)
(* Claims about the CSV export and import (SpecCsv).                       *)
(***************************************************************************)
\* C21: a record list that was serialized and read back (parseCsv, then
\* rowsToItems, the header present) is the same list: the same records in
\* the same order, field for field, a null sellingPrice and a null soldDate
\* included, and a name or memo with a comma, a quote, a newline or a
\* carriage return included.
C21_RoundTrip ==
    (shown # NotRun /\ shown.page = "import") => shown.imported = records

(***************************************************************************)
(* Claims about the cashflow page and its presets (SpecCashflow).          *)
(***************************************************************************)
ColumnSums(rows) ==
    LET income == Sum([i \in DOMAIN rows |-> rows[i].income])
        expense == Sum([i \in DOMAIN rows |-> rows[i].expense])
        net == Sum([i \in DOMAIN rows |-> rows[i].net])
    IN  [income |-> income, expense |-> expense, net |-> net]

\* C25: under every preset the income, expense and net totals of the
\* cashflow page equal the sums of these columns over the month buckets,
\* over the year buckets and over the category rows of the same filtered
\* events.
C25_TotalsMatchBuckets ==
    Rendered("cashflow") =>
        /\ shown.totals = ColumnSums(shown.monthlyCashflow)
        /\ shown.totals = ColumnSums(shown.yearlyCashflow)
        /\ shown.totals = ColumnSums(shown.categoryBreakdown)

EventsUnder(prefix, length) ==
    {i \in DOMAIN shown.transactions :
        /\ IsIsoDate(Utf8(shown.transactions[i].date))
        /\ SubSeq(Utf8(shown.transactions[i].date), 1, length) = prefix}
KeyedByDate(rows, length) ==
    LET events == shown.transactions
        Keys == {SubSeq(Utf8(events[i].date), 1, length) :
                    i \in {j \in DOMAIN events : IsIsoDate(Utf8(events[j].date))}}
        Income == [i \in DOMAIN events |-> events[i].income]
        Expense == [i \in DOMAIN events |-> events[i].expense]
    IN  /\ {rows[i].key : i \in DOMAIN rows} = Keys
        /\ \A i \in DOMAIN rows :
              /\ rows[i].income = SumOver(EventsUnder(rows[i].key, length), Income)
              /\ rows[i].expense = SumOver(EventsUnder(rows[i].key, length), Expense)

\* C26: an event whose date is a calendar date YYYY-MM-DD is counted in the
\* month bucket whose key is the YYYY-MM of that string and in the year
\* bucket whose key is its YYYY, in every time zone; nothing else of the
\* record (its createdAt) enters a key.
C26_KeyedByOwnDate ==
    Rendered("cashflow") =>
        /\ KeyedByDate(shown.monthlyCashflow, 7)
        /\ KeyedByDate(shown.yearlyCashflow, 4)

(***************************************************************************)
(* Claims about the store when a write to the file fails (SpecFault) and   *)
(* about the PUT route (Spec).                                             *)
(***************************************************************************)
PersistFails(s) ==
    UpsertFault(s) \/ DeleteFault(s) \/ ReplaceFault(s) \/ InsertManyFault(s)

\* C28: a store write (upsert, delete, replace-all, insert-many) that fails
\* while persisting leaves the store as it was: the table is unchanged, a
\* fetch-all returns the records it returned before, and the table does not
\* come to differ from the file.
C28_FailedWriteChangesNothing ==
    [][\A s \in Slots : PersistFails(s) =>
          /\ inflight'[s].status = 500
          /\ db' = db
          /\ getAllItems(db') = getAllItems(db)
          /\ (db = file => db' = file')]_vars

IsPut(req) == req.route = "PUT /api/items/[id]"

\* C29: PUT /api/items/X writes the record of id X and no other: the record
\* is stored under X whatever id the body carries, it is created when X is
\* not stored, the records of other ids are left as they were, and a body
\* that the Normalizer rejects is answered 400 "Invalid item" with the store
\* unchanged.
C29_PutWritesOnlyItsId ==
    /\ [][\A s \in Slots :
            (inflight[s].pc = "idle" /\ IsPut(inflight'[s])) =>
                /\ db' = db /\ file' = file
                /\ \/ /\ inflight'[s].pc = "db"
                      /\ inflight'[s].item.id = inflight'[s].id
                   \/ /\ inflight'[s].pc = "respond"
                      /\ inflight'[s].status = 400
                      /\ inflight'[s].error = "Invalid item"
                /\ \A body \in PutBodies :
                      (/\ PutItem(s, inflight'[s].id, body)
                       /\ \A id \in Ids :
                             normalizeItem(Object([body.f EXCEPT !.id = Str(id)])) = Null)
                          => inflight'[s].status = 400]_vars
    /\ [][\A s \in Slots :
            (IsPut(inflight[s]) /\ inflight'[s] # inflight[s]) =>
                LET X == inflight[s].id IN
                /\ {r \in db' : r.id # X} = {r \in db : r.id # X}
                /\ inflight[s].pc = "db" =>
                      /\ RowsWithId(db', X) = {BindRow(inflight[s].item)}
                      /\ inflight'[s].status = 200
                      /\ inflight'[s].item = inflight[s].item
                      /\ inflight'[s].item.id = X
                /\ inflight[s].pc = "respond" => db' = db]_vars

\* C29: PUT /api/items/2 with the body of record 1 created record 2 beside
\* record 1, which stayed as it was
C29_Witness ==
    \E s \in Slots :
        /\ inflight[s] = Response("PUT /api/items/[id]", "", "2",
                                  [ItemOf(Record1) EXCEPT !.id = "2"], <<>>, 200, "")
        /\ db = {BindRow(ItemOf(Record1)),
                 BindRow([ItemOf(Record1) EXCEPT !.id = "2"])}

(***************************************************************************)
(* Claims about the inventory page and the store behind it (SpecView,      *)
(* SpecViewFault).                                                         *)
(***************************************************************************)
Failed(call) == call.rejected \/ ~call.ok

\* C22: when the request of a save, a delete or an import has failed, the
\* handler reports a failure message, leaves the record list of the page as
\* it is (a failed delete does not remove the record from the list), and
\* sends no request again.
C22_FailureReported ==
    [][\A c \in Calls :
          (Resume(c) /\ Failed(calls[c])) =>
              /\ home'.importError \in {SaveFailed, DeleteFailed, ImportFailed}
              /\ records' = records
              /\ calls'[c] = NoCall
              /\ sent' = sent]_vars

AllSettled == \A c \in Calls : calls[c].pc = "idle"

\* C23: whenever every request of the page has completed (all of them
\* successfully), the record list of the page holds exactly the records of
\* the store, each once: a record deleted by one of two overlapping deletes,
\* or deleted while a save was in flight, is not in the list.
C23_ViewMatchesStore ==
    AllSettled =>
        /\ Len(records) = Cardinality(db)
        /\ {records[i] : i \in DOMAIN records} = {mapRow(r) : r \in db}

\* C24: a save of the form that edits an item record sends, and the store
\* then holds under the edited id, the record with the sellingPrice and the
\* soldDate that the form submitted (null when the user cleared them) and
\* with the id and the createdAt of the edited record.
C24_EditStoresSubmitted ==
    /\ [][\A c \in Calls :
            home.editingItem # Null =>
                \A formData \in FormsOf(FormOf(home.editingItem)) :
                    (formData.recordType = "item" /\ handleSaveItem(c, formData)) =>
                        /\ calls'[c].item.sellingPrice = handleSubmit(formData).sellingPrice
                        /\ calls'[c].item.soldDate = handleSubmit(formData).soldDate
                        /\ calls'[c].item.id = home.editingItem.id
                        /\ calls'[c].item.createdAt = home.editingItem.createdAt]_vars
    /\ [][\A c \in Calls :
            (calls[c].kind = "edit" /\ Serve(c)) =>
                RowsWithId(db', calls[c].id) = {BindRow(calls[c].item)}]_vars

\* C27: the records that the cashflow page aggregates when it loads are the
\* records that fetch-all returns from the store at that moment.
C27_CashflowShowsStore ==
    [][LoadCashflow =>
          /\ Len(shown'.items) = Cardinality(db)
          /\ {shown'.items[i] : i \in DOMAIN shown'.items} = {mapRow(r) : r \in db}]_vars

\* C30: a save that was started finishes with isSaving cleared, whether its
\* request succeeds, is answered with an error or is rejected; after a
\* success the dialog is closed and editingItem is null, after a failure the
\* dialog is as it was (open, unless the user closed it).
C30_SavingEnds ==
    /\ home.isSaving ~> ~home.isSaving
    /\ [][\A c \in Calls :
            (Resume(c) /\ calls[c].kind \in {"edit", "create"}) =>
                /\ ~home'.isSaving
                /\ IF Failed(calls[c])
                   THEN home'.isModalOpen = home.isModalOpen
                   ELSE ~home'.isModalOpen /\ home'.editingItem = Null]_vars

\* C30: a save was answered with an error: the dialog is open, the message
\* is shown, and isSaving is cleared
C30_Witness ==
    /\ home.importError = SaveFailed
    /\ home.isModalOpen
    /\ ~home.isSaving
    /\ sent > 0
    /\ AllSettled

====
